---- MODULE Spec2Model ----
(***************************************************************************)
(* A model of clipboard-sync: the filename codec, the presence check, the  *)
(* Sync Writer and Sync Reader pipelines with their dedup state, and the   *)
(* event handlers of the dispatcher in main.rs.                             *)
(*                                                                          *)
(* Conventions.                                                             *)
(*  - Option<T> is a sequence: None == <<>>, Some(x) == <<x>>.             *)
(*  - A file name is a sequence of one-character strings, so that the      *)
(*    regular expression of the codec is matched character by character.   *)
(*  - A path is a record [root, name, child]: root is the directory it     *)
(*    lives in ("sync" is the sync folder, "home" is local disk), name is  *)
(*    the first component below the sync folder and child the file name    *)
(*    that follows it (<<>> when there is none).                           *)
(*  - Time is in milliseconds; one clock serves now_ms() and Instant.      *)
(***************************************************************************)
EXTENDS Integers, Sequences, FiniteSets, TLC

VARIABLES
    now,        \* the clock read by now_ms()
    clip,       \* the live system clipboard
    disk,       \* the shared folders: root -> (name -> entry)
    state,      \* AppState (main.rs)
    queue,      \* UserEvents posted to the event loop, oldest first
    os,         \* what the operating system reports: folder reachable, child process
    ev,         \* what the last step did (observation only)
    hist,       \* what the pipelines did so far (observation only)
    budget,     \* how many more inputs the environment will produce
    call        \* the codec call under examination (observation only)

vars == <<now, clip, disk, state, queue, os, ev, hist, budget, call>>

(***************************************************************************)
(* Bounds of the model                                                      *)
(***************************************************************************)
T0 == 1000000
MaxQueue == 2

(***************************************************************************)
(* Program constants (consts.rs, main.rs)                                   *)
(***************************************************************************)
STALE_THRESHOLD_SECS == 10 * 60
SELF_CLEAN_THRESHOLD_SECS == 5 * 60
OTHERS_CLEAN_THRESHOLD_SECS == 10 * 60
KEEP_ALIVE_INTERVAL_SECS == 4 * 60
MAX_FILES_SIZE_MB == 100
ICON_FLASH_DURATION_SECS == 5
CLIPBOARD_DEBOUNCE_MS == 500
CLIPBOARD_WRITE_DELAY_MS == 100
FILE_DETECTED_DELAY_MS == 200
DUPLICATE_WINDOW_MS == 15000
IDLE_TIMEOUT_SECS == 30
SYNC_COMMAND_WAIT_SECS == 15

(***************************************************************************)
(* Options, characters, decimal numbers                                     *)
(***************************************************************************)
None == <<>>
Some(x) == <<x>>
IsSome(o) == o /= <<>>
Unwrap(o) == o[1]

Digits == <<"0", "1", "2", "3", "4", "5", "6", "7", "8", "9">>
DigitChars == {Digits[i] : i \in 1..10}
LetterChars ==
    {"a","b","c","d","e","f","g","h","i","j","k","l","m","n","o","p","q","r",
     "s","t","u","v","w","x","y","z","A","B","C","D","E","F","G","H","I","J",
     "K","L","M","N","O","P","Q","R","S","T","U","V","W","X","Y","Z"}
DigitValue(c) == (CHOOSE i \in 1..10 : Digits[i] = c) - 1

\* format!("{n}") of an unsigned integer
RECURSIVE ToDecimal(_)
ToDecimal(n) ==
    IF n < 10 THEN <<Digits[n + 1]>>
    ELSE ToDecimal(n \div 10) \o <<Digits[(n % 10) + 1]>>

\* str::parse of a digit string (the strings of the model stay far below
\* the width of u64 and of u32)
RECURSIVE ParseDecimal(_)
ParseDecimal(s) ==
    IF Len(s) = 0 THEN 0
    ELSE 10 * ParseDecimal(SubSeq(s, 1, Len(s) - 1)) + DigitValue(s[Len(s)])

\* the longest prefix of s made of characters of cs
RECURSIVE PrefixIn(_, _)
PrefixIn(s, cs) ==
    IF Len(s) = 0 \/ s[1] \notin cs THEN <<>>
    ELSE <<s[1]>> \o PrefixIn(Tail(s), cs)

Drop(s, n) == SubSeq(s, n + 1, Len(s))
EndsWith(s, suffix) ==
    /\ Len(s) >= Len(suffix)
    /\ SubSeq(s, Len(s) - Len(suffix) + 1, Len(s)) = suffix

Max(a, b) == IF a >= b THEN a ELSE b
\* u64::saturating_sub
SaturatingSub(a, b) == IF a >= b THEN a - b ELSE 0

(***************************************************************************)
(* types.rs                                                                 *)
(***************************************************************************)
\* ClipboardText::is_empty
TextIsEmpty(ct) ==
    /\ (~IsSome(ct.text) \/ Unwrap(ct.text) = "")
    /\ (~IsSome(ct.html) \/ Unwrap(ct.html) = "")
    /\ (~IsSome(ct.rtf) \/ Unwrap(ct.rtf) = "")

\* ClipboardText::equals
TextEquals(a, b) == a.text = b.text /\ a.html = b.html /\ a.rtf = b.rtf

\* ClipboardText::default()
DefaultText == [text |-> None, html |-> None, rtf |-> None]

(***************************************************************************)
(* External encodings: serde_json, PNG, SHA-256                             *)
(***************************************************************************)
\* serde_json::to_string_pretty of a ClipboardText: absent fields are
\* omitted (skip_serializing_if), so the document is its present fields.
ToJson(ct) ==
    <<"json",
      {<<"text", Unwrap(ct.text)>> : x \in {1} \cap (IF IsSome(ct.text) THEN {1} ELSE {})}
      \cup {<<"html", Unwrap(ct.html)>> : x \in {1} \cap (IF IsSome(ct.html) THEN {1} ELSE {})}
      \cup {<<"rtf", Unwrap(ct.rtf)>> : x \in {1} \cap (IF IsSome(ct.rtf) THEN {1} ELSE {})}>>

JsonField(fields, key) ==
    IF \E kv \in fields : kv[1] = key
    THEN Some((CHOOSE kv \in fields : kv[1] = key)[2])
    ELSE None

\* serde_json::from_str::<ClipboardText>: Err (None here) unless the body is
\* a JSON document; a missing field deserialises to None.
FromJson(body) ==
    IF body[1] = "json"
    THEN Some([text |-> JsonField(body[2], "text"),
               html |-> JsonField(body[2], "html"),
               rtf |-> JsonField(body[2], "rtf")])
    ELSE None

\* RustImage::to_png: the canonical PNG bytes of an image
ToPng(img) == <<"png", img>>
\* RustImageData::from_bytes: Err (None) unless the bytes are a PNG
ImageFromBytes(body) == IF body[1] = "png" THEN Some(body[2]) ELSE None
\* calculate_sha256 (utils.rs): injective on the bytes of the model
calculate_sha256(bytes) == <<"sha256", bytes>>

(***************************************************************************)
(* Artifact Codec (clipboard.rs)                                            *)
(***************************************************************************)
IS_RECEIVING_FILE_SUFFIX ==
    <<".", "i", "s", "-", "r", "e", "c", "e", "i", "v", "i", "n", "g", ".", "t", "x", "t">>
TEXT_JSON == <<"t", "e", "x", "t", ".", "j", "s", "o", "n">>
PNG == <<"p", "n", "g">>
FILES == <<"_", "f", "i", "l", "e", "s">>
HostChars == DigitChars \cup LetterChars \cup {"-"}

\* [1-9][0-9]* matched against the whole of s
IsCount(s) == Len(s) >= 1 /\ s[1] /= "0" /\ PrefixIn(s, DigitChars) = s

\* FILE_NAME_REGEX.captures(base_name):
\*   ^([1-9][0-9]*)-([0-9a-zA-Z-]+)\.((text\.json)|png|([1-9][0-9]*)_files)$
\* None when there is no match, else the groups 1, 2, 4 and 5.  The match
\* goes left to right: the beat, the dash, the hostname, the dot, the suffix.
RegexSuffix(g1, g2, suffix) ==
    IF suffix = TEXT_JSON
    THEN Some([g1 |-> g1, g2 |-> g2, g4 |-> Some(suffix), g5 |-> None])
    ELSE IF suffix = PNG
    THEN Some([g1 |-> g1, g2 |-> g2, g4 |-> None, g5 |-> None])
    ELSE IF EndsWith(suffix, FILES) /\ IsCount(SubSeq(suffix, 1, Len(suffix) - Len(FILES)))
    THEN Some([g1 |-> g1, g2 |-> g2, g4 |-> None,
               g5 |-> Some(SubSeq(suffix, 1, Len(suffix) - Len(FILES)))])
    ELSE None
\* the hostname is the longest run of [0-9a-zA-Z-]: the next character is
\* none of these, so no shorter run can be followed by the dot
RegexHost(g1, g2, rest) ==
    IF Len(g2) >= 1 /\ Len(rest) > Len(g2) /\ rest[Len(g2) + 1] = "."
    THEN RegexSuffix(g1, g2, Drop(rest, Len(g2) + 1))
    ELSE None
\* RegexBeat with a hostname class without the hyphen
RegexBeat_no_hyphen(g1, rest) ==
    IF IsCount(g1) /\ Len(rest) >= 1 /\ rest[1] = "-"
    THEN RegexHost(g1, PrefixIn(Drop(rest, 1), DigitChars \cup LetterChars), Drop(rest, 1))
    ELSE None
RegexBeat(g1, rest) ==
    IF IsCount(g1) /\ Len(rest) >= 1 /\ rest[1] = "-"
    THEN RegexHost(g1, PrefixIn(Drop(rest, 1), HostChars), Drop(rest, 1))
    ELSE None
FILE_NAME_REGEX(base_name) ==
    RegexBeat(PrefixIn(base_name, DigitChars),
              Drop(base_name, Len(PrefixIn(base_name, DigitChars))))

\* a path of the sync folder
SyncPath(sync_folder, name, child) == [root |-> sync_folder, name |-> name, child |-> child]

\* parse_clipboard_filename once the regex matched: c holds the groups
ParsedFromCaptures(c, origin, sync_folder, base_name, filter) ==
    IF IsSome(filter) /\ origin /= Unwrap(filter) THEN None
    ELSE Some([path |-> SyncPath(sync_folder, base_name, <<>>),
               beat |-> ParseDecimal(c.g1),
               content_type |-> IF IsSome(c.g5) THEN "Files"
                                ELSE IF IsSome(c.g4) THEN "Text" ELSE "Image",
               origin |-> origin,
               files_count |->
                   IF IsSome(c.g5) THEN Some(ParseDecimal(Unwrap(c.g5))) ELSE None])
ParsedFromMatch(captures, sync_folder, base_name, hostname, filter) ==
    IF ~IsSome(captures) THEN None
    ELSE ParsedFromCaptures(Unwrap(captures),
                            IF Unwrap(captures).g2 = hostname THEN "Myself" ELSE "Others",
                            sync_folder, base_name, filter)

\* parse_clipboard_filename(file, sync_folder, hostname, filter); filter is
\* None or Some("Myself") or Some("Others").  Only the first component of
\* the path below the sync folder is decoded.
parse_clipboard_filename(file, sync_folder, hostname, filter) ==
    IF file.root /= sync_folder \/ Len(file.name) = 0 THEN None
    ELSE ParsedFromMatch(FILE_NAME_REGEX(file.name), sync_folder, file.name, hostname, filter)

\* is_receiving_file
is_receiving_file(name) == EndsWith(name, IS_RECEIVING_FILE_SUFFIX)

\* the name of a text artifact with the beat cut to whole seconds
TextFileName_seconds(beat, hostname) ==
    ToDecimal(beat - (beat % 1000)) \o <<"-">> \o hostname \o <<".">> \o TEXT_JSON
\* the names the writer and the keep-alive form with format!
TextFileName(beat, hostname) == ToDecimal(beat) \o <<"-">> \o hostname \o <<".">> \o TEXT_JSON
ImageFileName(beat, hostname) == ToDecimal(beat) \o <<"-">> \o hostname \o <<".">> \o PNG
FilesFolderName(beat, hostname, files_count) ==
    ToDecimal(beat) \o <<"-">> \o hostname \o <<".">> \o ToDecimal(files_count) \o FILES
KeepAliveName(hostname) == hostname \o IS_RECEIVING_FILE_SUFFIX

(***************************************************************************)
(* The file system: the sync folder and the local disk                      *)
(***************************************************************************)
\* An entry of the sync folder: [isDir, mtime, author, body].  author says
\* which host created it ("me" or a peer); the program never reads it.  body
\* is <<"json", fields>>, <<"png", image>>, <<"raw">> (anything else), or
\* <<"dir", children>> with children: file name -> [isDir, nfiles, sizeMB].
FileEntry(mtime, author, body) ==
    [isDir |-> FALSE, mtime |-> mtime, author |-> author, body |-> body]
DirEntry(mtime, author, children) ==
    [isDir |-> TRUE, mtime |-> mtime, author |-> author, body |-> <<"dir", children>>]

\* what lies on the local disk: name -> [isDir, nfiles, sizeMB]
\* (a file "a", a directory "d" of two files, a file "b" over the size cap,
\* an empty directory "e")
LocalDisk ==
    [c \in {<<"a">>, <<"d">>, <<"b">>, <<"e">>} |->
        CASE c = <<"a">> -> [isDir |-> FALSE, nfiles |-> 1, sizeMB |-> 1]
          [] c = <<"d">> -> [isDir |-> TRUE, nfiles |-> 2, sizeMB |-> 2]
          [] c = <<"e">> -> [isDir |-> TRUE, nfiles |-> 0, sizeMB |-> 0]
          [] c = <<"b">> -> [isDir |-> FALSE, nfiles |-> 1, sizeMB |-> MAX_FILES_SIZE_MB + 1]]
LocalPath(c) == [root |-> "home", name |-> <<>>, child |-> c]

RECURSIVE SumOver(_, _, _)
SumOver(f, S, field) ==
    IF S = {} THEN 0
    ELSE LET x == CHOOSE y \in S : TRUE
         IN  (IF field = "nfiles" THEN f[x].nfiles ELSE f[x].sizeMB)
             + SumOver(f, S \ {x}, field)

Missing == [exists |-> FALSE, isDir |-> FALSE, nfiles |-> 0, sizeMB |-> 0]
\* What WalkDir and the metadata calls find at a path: whether it exists, is
\* a directory, and how many files of which total size lie at or below it.
\* fs is the part of the disk that can be reached: root -> (name -> entry).
Stat(fs, p) ==
    IF p.root = "home"
    THEN IF p.child \in DOMAIN LocalDisk
         THEN [exists |-> TRUE, isDir |-> LocalDisk[p.child].isDir,
               nfiles |-> LocalDisk[p.child].nfiles, sizeMB |-> LocalDisk[p.child].sizeMB]
         ELSE Missing
    ELSE IF p.root \notin DOMAIN fs \/ p.name \notin DOMAIN fs[p.root] THEN Missing
    ELSE LET e == fs[p.root][p.name]
             kids == IF e.isDir THEN e.body[2] ELSE <<>>
         IN  IF p.child = <<>>
             THEN IF e.isDir
                  THEN [exists |-> TRUE, isDir |-> TRUE,
                        nfiles |-> SumOver(kids, DOMAIN kids, "nfiles"),
                        sizeMB |-> SumOver(kids, DOMAIN kids, "sizeMB")]
                  ELSE [exists |-> TRUE, isDir |-> FALSE, nfiles |-> 1, sizeMB |-> 0]
             ELSE IF e.isDir /\ p.child \in DOMAIN kids
                  THEN [exists |-> TRUE, isDir |-> kids[p.child].isDir,
                        nfiles |-> kids[p.child].nfiles, sizeMB |-> kids[p.child].sizeMB]
                  ELSE Missing

RECURSIVE SumStat(_, _, _)
SumStat(fs, paths, field) ==
    IF Len(paths) = 0 THEN 0
    ELSE (IF field = "nfiles" THEN Stat(fs, paths[1]).nfiles ELSE Stat(fs, paths[1]).sizeMB)
         + SumStat(fs, Tail(paths), field)

\* get_total_number_of_files (utils.rs)
get_total_number_of_files(fs, paths) == SumStat(fs, paths, "nfiles")
\* get_files_size_mb (utils.rs)
get_files_size_mb(fs, paths) == SumStat(fs, paths, "sizeMB")

\* a.sort(); b.sort(); a == b  -- equal as multisets
CountIn(s, x) == Cardinality({i \in 1..Len(s) : s[i] = x})
SortedEqual(a, b) ==
    /\ Len(a) = Len(b)
    /\ \A i \in 1..Len(a) : CountIn(a, a[i]) = CountIn(b, a[i])

\* the entries of a directory as read_dir yields them, in some fixed order
RECURSIVE SetToSeq(_)
SetToSeq(S) ==
    IF S = {} THEN <<>>
    ELSE LET x == CHOOSE y \in S : TRUE IN <<x>> \o SetToSeq(S \ {x})

(***************************************************************************)
(* Presence Tracker (clipboard.rs)                                          *)
(***************************************************************************)
\* std::fs::read_dir(dir): the entries, or None when dir cannot be read
ReadDir(fs, dir) == IF dir \in DOMAIN fs THEN Some(fs[dir]) ELSE None

\* no_computers_receiving without the exclusion of the host's own marker
no_computers_receiving_own_counts(fs, sync_folder, hostname, t) ==
    LET stale_threshold == SaturatingSub(t, STALE_THRESHOLD_SECS * 1000)
        entries == ReadDir(fs, sync_folder)
    IN  IF ~IsSome(entries) THEN TRUE
        ELSE ~\E name \in DOMAIN Unwrap(entries) :
                /\ is_receiving_file(name)
                /\ Unwrap(entries)[name].mtime >= stale_threshold

\* no_computers_receiving(sync_folder, hostname, now)
no_computers_receiving(fs, sync_folder, hostname, t) ==
    LET our_file == KeepAliveName(hostname)
        stale_threshold == SaturatingSub(t, STALE_THRESHOLD_SECS * 1000)
        entries == ReadDir(fs, sync_folder)
    IN  IF ~IsSome(entries) THEN TRUE
        ELSE ~\E name \in DOMAIN Unwrap(entries) :
                /\ is_receiving_file(name)
                /\ name /= our_file
                /\ Unwrap(entries)[name].mtime >= stale_threshold

(***************************************************************************)
(* The system clipboard (clipboard_rs)                                      *)
(***************************************************************************)
\* The clipboard holds at most one value per format.  ctx.has(f) is
\* IsSome of the format's field and ctx.get_*() returns the value: a read
\* from a context that was opened succeeds.
EmptyClipboard == [files |-> None, image |-> None, text |-> None, html |-> None, rtf |-> None]
\* ctx.set(contents): clears the clipboard, then sets every given format
ClipboardSetText(ct) == [EmptyClipboard EXCEPT !.text = ct.text, !.html = ct.html, !.rtf = ct.rtf]
\* ctx.set_image
ClipboardSetImage(img) == [EmptyClipboard EXCEPT !.image = Some(img)]
\* ctx.set_files
ClipboardSetFiles(paths) == [EmptyClipboard EXCEPT !.files = Some(paths)]
HasAnyText(ctx) == IsSome(ctx.text) \/ IsSome(ctx.html) \/ IsSome(ctx.rtf)
\* the ClipboardText the pipelines build from the formats present
ClipboardGetText(ctx) == [text |-> ctx.text, html |-> ctx.html, rtf |-> ctx.rtf]

(***************************************************************************)
(* Sync Writer (clipboard.rs, write_clipboard_to_file)                      *)
(***************************************************************************)
\* IsRecent with the window closed one millisecond later
IsRecent_inclusive(last_beat, beat) ==
    IsSome(last_beat) /\ beat - Unwrap(last_beat) <= DUPLICATE_WINDOW_MS
\* lines 286-288: the duplicate window
IsRecent(last_beat, beat) ==
    IsSome(last_beat) /\ beat - Unwrap(last_beat) < DUPLICATE_WINDOW_MS

\* lines 210-283: the dominant kind and its content.  None when the writer
\* returns false here (kind disabled, or no known format).
ProbeClipboard(ctx, config) ==
    LET blank == [content_type |-> "Text", clipboard_text |-> DefaultText,
                  clipboard_image_bytes |-> None, clipboard_image_sha256 |-> None,
                  clipboard_file_paths |-> None]
    IN  IF IsSome(ctx.files)
        THEN IF ~config.send_files THEN None
             ELSE Some([blank EXCEPT !.content_type = "Files",
                                     !.clipboard_file_paths = ctx.files])
        ELSE IF IsSome(ctx.image)
        THEN IF ~config.send_images THEN None
             ELSE Some([blank EXCEPT !.content_type = "Image",
                            !.clipboard_image_bytes = Some(ToPng(Unwrap(ctx.image))),
                            !.clipboard_image_sha256 =
                                Some(calculate_sha256(ToPng(Unwrap(ctx.image))))])
        ELSE IF HasAnyText(ctx)
        THEN IF ~config.send_texts THEN None
             ELSE Some([blank EXCEPT !.clipboard_text = ClipboardGetText(ctx)])
        ELSE None

\* WriterSkipsText without the comparison against the last text written
WriterSkipsText_read_only(ct, recent, st) ==
    \/ TextIsEmpty(ct)
    \/ /\ recent
       /\ IsSome(st.last_text_read) /\ TextEquals(Unwrap(st.last_text_read), ct)

\* lines 291-308: TRUE when the writer returns false for a Text candidate
WriterSkipsText(ct, recent, st) ==
    \/ TextIsEmpty(ct)
    \/ /\ recent
       /\ \/ (IsSome(st.last_text_read) /\ TextEquals(Unwrap(st.last_text_read), ct))
          \/ (IsSome(st.last_text_written) /\ TextEquals(Unwrap(st.last_text_written), ct))

\* WriterSkipsImage without the comparison against the last image read
WriterSkipsImage_written_only(sha, recent, st) ==
    /\ recent
    /\ IsSome(st.last_image_sha256_written) /\ Unwrap(st.last_image_sha256_written) = sha

\* lines 309-323: TRUE when the writer returns false for an Image candidate
WriterSkipsImage(sha, recent, st) ==
    /\ recent
    /\ \/ (IsSome(st.last_image_sha256_read) /\ Unwrap(st.last_image_sha256_read) = sha)
       \/ (IsSome(st.last_image_sha256_written) /\ Unwrap(st.last_image_sha256_written) = sha)

\* lines 324-349: TRUE when the writer returns false for a Files candidate
WriterSkipsFiles(files, recent, st, fs) ==
    \/ Len(files) = 0
    \/ /\ recent
       /\ IsSome(st.last_file_paths_read)
       /\ SortedEqual(files, Unwrap(st.last_file_paths_read))
    \/ get_files_size_mb(fs, files) > MAX_FILES_SIZE_MB

\* lines 393-407: the copies made into the artifact directory.  A path in
\* `failing` is one whose copy returns an error, which is logged; a file is
\* then missing and a directory is left created and empty.
CopiedChildren(fs, files, failing) ==
    LET present == {i \in 1..Len(files) :
                        /\ Stat(fs, files[i]).exists
                        /\ (files[i] \in failing => Stat(fs, files[i]).isDir)}
        names == {files[i].child : i \in present}
        src(n) == files[CHOOSE i \in present : files[i].child = n]
    IN  [n \in names |->
            IF src(n) \in failing
            THEN [isDir |-> TRUE, nfiles |-> 0, sizeMB |-> 0]
            ELSE [isDir |-> Stat(fs, src(n)).isDir, nfiles |-> Stat(fs, src(n)).nfiles,
                  sizeMB |-> Stat(fs, src(n)).sizeMB]]

\* what the writer returns: [ret, state, fs, clipRead]; clipRead says
\* whether the clipboard was opened
WriterResult(ret, st, fs, clipRead) ==
    [ret |-> ret, state |-> st, fs |-> fs, clipRead |-> clipRead]

\* lines 290-350: TRUE when the writer returns false for the candidate c
WriterSkips(c, recent, st, fs) ==
    CASE c.content_type = "Text" -> WriterSkipsText(c.clipboard_text, recent, st)
      [] c.content_type = "Image" ->
            WriterSkipsImage(Unwrap(c.clipboard_image_sha256), recent, st)
      [] c.content_type = "Files" ->
            WriterSkipsFiles(Unwrap(c.clipboard_file_paths), recent, st, fs)

\* lines 356-373: std::fs::write of the text artifact, then the text is
\* recorded; st1 is the dedup state with the beat advanced
WriteText(fs, sync_folder, dest, st1, beat, c, io) ==
    IF ~io.write_ok \/ (dest \in DOMAIN fs[sync_folder] /\ fs[sync_folder][dest].isDir)
    THEN WriterResult(FALSE, st1, fs, TRUE)
    ELSE WriterResult(TRUE,
            [st1 EXCEPT !.last_text_written = Some(c.clipboard_text)],
            [fs EXCEPT ![sync_folder] =
                (dest :> FileEntry(beat, "me", ToJson(c.clipboard_text))) @@ @],
            TRUE)

\* lines 374-383: std::fs::write of the image artifact
WriteImage(fs, sync_folder, dest, st1, beat, c, io) ==
    IF ~io.write_ok \/ (dest \in DOMAIN fs[sync_folder] /\ fs[sync_folder][dest].isDir)
    THEN WriterResult(FALSE, st1, fs, TRUE)
    ELSE WriterResult(TRUE,
            [st1 EXCEPT !.last_image_sha256_written = c.clipboard_image_sha256],
            [fs EXCEPT ![sync_folder] =
                (dest :> FileEntry(beat, "me", Unwrap(c.clipboard_image_bytes))) @@ @],
            TRUE)

\* lines 384-409: create_dir of the files artifact and the copies into it;
\* nothing is recorded in the dedup state
WriteFiles(fs, sync_folder, dest, st1, beat, files, io) ==
    IF ~io.write_ok \/ dest \in DOMAIN fs[sync_folder]
    THEN WriterResult(FALSE, st1, fs, TRUE)
    ELSE WriterResult(TRUE, st1,
            [fs EXCEPT ![sync_folder] =
                (dest :> DirEntry(beat, "me", CopiedChildren(fs, files, io.failing))) @@ @],
            TRUE)

\* WriteCandidate that advances the last beat on a skipped candidate too
WriteCandidate_beat_first(fs, sync_folder, hostname, st, beat, c, io) ==
    IF WriterSkips(c, IsRecent(st.last_beat, beat), st, fs)
    THEN WriterResult(FALSE, [st EXCEPT !.last_beat = Some(beat)], fs, TRUE)
    ELSE CASE c.content_type = "Text" ->
                WriteText(fs, sync_folder, TextFileName(beat, hostname),
                          [st EXCEPT !.last_beat = Some(beat)], beat, c, io)
           [] c.content_type = "Image" ->
                WriteImage(fs, sync_folder, ImageFileName(beat, hostname),
                           [st EXCEPT !.last_beat = Some(beat)], beat, c, io)
           [] c.content_type = "Files" ->
                WriteFiles(fs, sync_folder,
                           FilesFolderName(beat, hostname,
                                get_total_number_of_files(fs, Unwrap(c.clipboard_file_paths))),
                           [st EXCEPT !.last_beat = Some(beat)], beat,
                           Unwrap(c.clipboard_file_paths), io)
\* lines 285-412: the writer once the candidate c is known
WriteCandidate(fs, sync_folder, hostname, st, beat, c, io) ==
    IF WriterSkips(c, IsRecent(st.last_beat, beat), st, fs)
    THEN WriterResult(FALSE, st, fs, TRUE)
    ELSE CASE c.content_type = "Text" ->
                WriteText(fs, sync_folder, TextFileName(beat, hostname),
                          [st EXCEPT !.last_beat = Some(beat)], beat, c, io)
           [] c.content_type = "Image" ->
                WriteImage(fs, sync_folder, ImageFileName(beat, hostname),
                           [st EXCEPT !.last_beat = Some(beat)], beat, c, io)
           [] c.content_type = "Files" ->
                WriteFiles(fs, sync_folder,
                           FilesFolderName(beat, hostname,
                                get_total_number_of_files(fs, Unwrap(c.clipboard_file_paths))),
                           [st EXCEPT !.last_beat = Some(beat)], beat,
                           Unwrap(c.clipboard_file_paths), io)

WriteProbed(fs, sync_folder, hostname, st, beat, probe, io) ==
    IF ~IsSome(probe) THEN WriterResult(FALSE, st, fs, TRUE)
    ELSE WriteCandidate(fs, sync_folder, hostname, st, beat, Unwrap(probe), io)

\* write_clipboard_to_file.  fs is the reachable disk, beat the clock at
\* entry, ctx the clipboard (None when ClipboardContext::new fails), io the
\* outcome of the writes: [write_ok, failing].
write_clipboard_to_file(fs, sync_folder, hostname, config, st, beat, ctx, io) ==
    IF no_computers_receiving(fs, sync_folder, hostname, beat)
    THEN WriterResult(FALSE, st, fs, FALSE)
    ELSE IF ~IsSome(ctx) THEN WriterResult(FALSE, st, fs, TRUE)
    ELSE WriteProbed(fs, sync_folder, hostname, st, beat,
                     ProbeClipboard(Unwrap(ctx), config), io)

(***************************************************************************)
(* Sync Reader (clipboard.rs, read_clipboard_from_file)                     *)
(***************************************************************************)
\* the count comparison accepting a directory that holds fewer files
CountMatches_at_most(actual_count, expected_count) == actual_count <= expected_count

\* line 486: all the files of the artifact are present
CountMatches(actual_count, expected_count) == actual_count = expected_count

\* lines 435-507: the content loaded from the artifact.  None when the
\* reader returns false here.
LoadArtifact(parsed, config, fs) ==
    LET name == parsed.path.name
        here == Stat(fs, parsed.path).exists
        e == fs[parsed.path.root][name]
        blank == [new_text |-> DefaultText, new_image_bytes |-> None,
                  new_image_sha256 |-> None, new_file_paths |-> None]
    IN  IF parsed.content_type = "Text" THEN
            IF ~config.receive_texts THEN None
            ELSE IF ~here \/ e.isDir THEN None
            ELSE IF ~IsSome(FromJson(e.body)) THEN None
            ELSE Some([blank EXCEPT !.new_text = Unwrap(FromJson(e.body))])
        ELSE IF parsed.content_type = "Image" THEN
            IF ~config.receive_images THEN None
            ELSE IF ~here \/ e.isDir THEN None
            ELSE Some([blank EXCEPT !.new_image_bytes = Some(e.body),
                                    !.new_image_sha256 = Some(calculate_sha256(e.body))])
        ELSE
            IF ~config.receive_files THEN None
            ELSE IF ~IsSome(parsed.files_count) THEN None
            ELSE IF ~CountMatches(get_total_number_of_files(fs, <<parsed.path>>),
                                  Unwrap(parsed.files_count)) THEN None
            ELSE IF ~here \/ ~e.isDir THEN None
            ELSE Some([blank EXCEPT !.new_file_paths =
                        Some(SetToSeq({SyncPath(parsed.path.root, name, c) :
                                            c \in DOMAIN e.body[2]}))])

\* ReaderSkips without the comparison against the live clipboard
ReaderSkips_empty_only(parsed, new, ctx) ==
    parsed.content_type = "Text" /\ TextIsEmpty(new.new_text)

\* lines 518-571: TRUE when the loaded content equals the live clipboard
\* (or is an empty text), and the reader returns false
ReaderSkips(parsed, new, ctx) ==
    CASE parsed.content_type = "Text" ->
            \/ TextIsEmpty(new.new_text)
            \/ (HasAnyText(ctx) /\ TextEquals(ClipboardGetText(ctx), new.new_text))
      [] parsed.content_type = "Image" ->
            /\ IsSome(ctx.image)
            /\ calculate_sha256(ToPng(Unwrap(ctx.image))) = Unwrap(new.new_image_sha256)
      [] parsed.content_type = "Files" ->
            /\ IsSome(ctx.files)
            /\ SortedEqual(Unwrap(new.new_file_paths), Unwrap(ctx.files))

\* lines 573-582: the artifact is older than what was already processed
Superseded(parsed, last_beat) ==
    IsSome(last_beat) /\ parsed.beat < Unwrap(last_beat)

\* line 584: the beat recorded once the artifact passed the checks
ReaderRecordedBeat(parsed, beat) == beat

\* what the reader returns: [ret, state, clip, clipSet]; clip is the
\* clipboard afterwards
ReaderResult(ret, st, ctx, clipSet) ==
    [ret |-> ret, state |-> st, clip |-> ctx, clipSet |-> clipSet]

\* ApplyArtifact that records the text it could not set
ApplyArtifact_records_unset(parsed, new, st1, ctx, set_ok) ==
    IF ~set_ok
    THEN ReaderResult(FALSE, [st1 EXCEPT !.last_text_read = Some(new.new_text)], ctx, FALSE)
    ELSE CASE parsed.content_type = "Text" ->
                ReaderResult(TRUE, [st1 EXCEPT !.last_text_read = Some(new.new_text)],
                             Some(ClipboardSetText(new.new_text)), TRUE)
           [] parsed.content_type = "Image" ->
                IF ~IsSome(ImageFromBytes(Unwrap(new.new_image_bytes)))
                THEN ReaderResult(FALSE, st1, ctx, FALSE)
                ELSE ReaderResult(TRUE,
                        [st1 EXCEPT !.last_image_sha256_read = new.new_image_sha256],
                        Some(ClipboardSetImage(
                                Unwrap(ImageFromBytes(Unwrap(new.new_image_bytes))))),
                        TRUE)
           [] parsed.content_type = "Files" ->
                ReaderResult(TRUE,
                        [st1 EXCEPT !.last_file_paths_read = new.new_file_paths],
                        Some(ClipboardSetFiles(Unwrap(new.new_file_paths))), TRUE)
\* lines 586-637: the clipboard is set and the content recorded; st1 is the
\* dedup state with the beat advanced
ApplyArtifact(parsed, new, st1, ctx, set_ok) ==
    IF ~set_ok THEN ReaderResult(FALSE, st1, ctx, FALSE)
    ELSE CASE parsed.content_type = "Text" ->
                ReaderResult(TRUE, [st1 EXCEPT !.last_text_read = Some(new.new_text)],
                             Some(ClipboardSetText(new.new_text)), TRUE)
           [] parsed.content_type = "Image" ->
                IF ~IsSome(ImageFromBytes(Unwrap(new.new_image_bytes)))
                THEN ReaderResult(FALSE, st1, ctx, FALSE)
                ELSE ReaderResult(TRUE,
                        [st1 EXCEPT !.last_image_sha256_read = new.new_image_sha256],
                        Some(ClipboardSetImage(
                                Unwrap(ImageFromBytes(Unwrap(new.new_image_bytes))))),
                        TRUE)
           [] parsed.content_type = "Files" ->
                ReaderResult(TRUE,
                        [st1 EXCEPT !.last_file_paths_read = new.new_file_paths],
                        Some(ClipboardSetFiles(Unwrap(new.new_file_paths))), TRUE)

\* lines 509-637: the reader once the artifact's content is loaded
ReadLoaded(parsed, st, beat, ctx, set_ok, loaded) ==
    IF ~IsSome(loaded) THEN ReaderResult(FALSE, st, ctx, FALSE)
    ELSE IF ~IsSome(ctx) THEN ReaderResult(FALSE, st, ctx, FALSE)
    ELSE IF ReaderSkips(parsed, Unwrap(loaded), Unwrap(ctx))
    THEN ReaderResult(FALSE, st, ctx, FALSE)
    ELSE IF Superseded(parsed, st.last_beat) THEN ReaderResult(FALSE, st, ctx, FALSE)
    ELSE ApplyArtifact(parsed, Unwrap(loaded),
                       [st EXCEPT !.last_beat = Some(ReaderRecordedBeat(parsed, beat))],
                       ctx, set_ok)

\* read_clipboard_from_file.  fs is the reachable disk, beat the clock at
\* entry, ctx the clipboard (None when ClipboardContext::new fails), set_ok
\* the outcome of the clipboard set call.
read_clipboard_from_file(parsed, config, st, fs, beat, ctx, set_ok) ==
    ReadLoaded(parsed, st, beat, ctx, set_ok, LoadArtifact(parsed, config, fs))

(***************************************************************************)
(* The machine the handlers run on                                          *)
(***************************************************************************)
\* A handler works on m == [state, disk, os, calls]: the AppState, the
\* shared folders, the operating system's side (os.is_dir: which folders
\* are reachable; os.child: the spawned command, "none", "running" or
\* "exited"; os.live: the number of spawned commands that have neither
\* exited nor been killed; os.tooltip: the tray tooltip; os.started,
\* os.exited: the event loop has started, the process has exited) and the
\* calls made so far.
Machine == [state |-> state, disk |-> disk, os |-> os, calls |-> <<>>]
\* the part of the disk that can be reached
Reachable(m) == [r \in {x \in DOMAIN m.disk : m.os.is_dir[x]} |-> m.disk[r]]
\* Path::is_dir on a sync folder
IsDir(m, dir) == dir \in DOMAIN Reachable(m)
Without(f, name) == [n \in DOMAIN f \ {name} |-> f[n]]
Called(m, what) == [m EXCEPT !.calls = Append(@, what)]

StartsWith(s, prefix) == Len(s) >= Len(prefix) /\ SubSeq(s, 1, Len(prefix)) = prefix
Contains(s, part) ==
    \E i \in 1..(Len(s) - Len(part) + 1) : SubSeq(s, i, i + Len(part) - 1) = part

(***************************************************************************)
(* Process Supervisor (sync_command.rs)                                     *)
(***************************************************************************)
\* SyncCommandStart that does not look for a held child
SyncCommandStart_unguarded(m, command, spawn_ok) ==
    IF command = "" \/ ~spawn_ok THEN [m |-> m, ret |-> FALSE]
    ELSE [m |-> [Called(m, "spawn") EXCEPT !.state.sync_command.child = Some("child"),
                                          !.os.child = "running", !.os.live = @ + 1],
          ret |-> TRUE]
\* SyncCommand::start; spawn_ok is whether the command line parses and the
\* process spawns.  The result is [m, ret].
SyncCommandStart(m, command, spawn_ok) ==
    IF command = "" \/ IsSome(m.state.sync_command.child) THEN [m |-> m, ret |-> FALSE]
    ELSE IF ~spawn_ok THEN [m |-> m, ret |-> FALSE]
    ELSE [m |-> [Called(m, "spawn") EXCEPT !.state.sync_command.child = Some("child"),
                                          !.os.child = "running", !.os.live = @ + 1],
          ret |-> TRUE]

\* SyncCommandStop that kills without looking for a child
SyncCommandStop_always_kills(m) ==
    [Called(m, "kill") EXCEPT !.state.sync_command.child = None, !.os.child = "none",
                              !.os.live = IF m.os.child = "running" THEN @ - 1 ELSE @]
\* SyncCommand::stop
SyncCommandStop(m) ==
    IF IsSome(m.state.sync_command.child)
    THEN [Called(m, "kill") EXCEPT !.state.sync_command.child = None, !.os.child = "none",
                                   !.os.live = IF m.os.child = "running" THEN @ - 1 ELSE @]
    ELSE [m EXCEPT !.state.sync_command.child = None]

\* SyncCommandCheck that returns the status and keeps the handle
SyncCommandCheck_keeps_handle(m) ==
    IF IsSome(m.state.sync_command.child) /\ m.os.child = "exited"
    THEN [m |-> m, status |-> Some("exit status")]
    ELSE [m |-> m, status |-> None]
\* SyncCommand::check; the result is [m, status]
SyncCommandCheck(m) ==
    IF IsSome(m.state.sync_command.child) /\ m.os.child = "exited"
    THEN [m |-> [m EXCEPT !.state.sync_command.child = None, !.os.child = "none"],
          status |-> Some("exit status")]
    ELSE [m |-> m, status |-> None]

(***************************************************************************)
(* Retention Sweeper (clipboard.rs, clean_files)                            *)
(***************************************************************************)
\* lines 148-149
IsLegacyName(name) ==
    /\ EndsWith(name, <<".", "t", "x", "t">>)
    /\ \/ StartsWith(name, <<"r", "e", "c", "e", "i", "v", "i", "n", "g", "-">>)
       \/ Contains(name, <<".", "i", "s", "-", "r", "e", "a", "d", "i", "n", "g", ".">>)

\* CleanDeletesParsed that keeps an artifact aged exactly at its threshold
CleanDeletesParsed_strictly_older(parsed, entries, name, t) ==
    IF ~IsSome(parsed)
    THEN IF is_receiving_file(name) THEN FALSE ELSE IsLegacyName(name)
    ELSE entries[name].mtime <
            SaturatingSub(t, IF Unwrap(parsed).origin = "Myself"
                             THEN SELF_CLEAN_THRESHOLD_SECS * 1000
                             ELSE OTHERS_CLEAN_THRESHOLD_SECS * 1000)
\* whether clean_files deletes the entry `name`, which parses to `parsed`
CleanDeletesParsed(parsed, entries, name, t) ==
    IF ~IsSome(parsed)
    THEN IF is_receiving_file(name) THEN FALSE ELSE IsLegacyName(name)
    ELSE entries[name].mtime <=
            SaturatingSub(t, IF Unwrap(parsed).origin = "Myself"
                             THEN SELF_CLEAN_THRESHOLD_SECS * 1000
                             ELSE OTHERS_CLEAN_THRESHOLD_SECS * 1000)
\* CleanDeletes that tests the legacy patterns before the marker suffix
CleanDeletes_legacy_first(entries, sync_folder, hostname, name, t) ==
    \/ IsLegacyName(name)
    \/ CleanDeletesParsed(
        parse_clipboard_filename(SyncPath(sync_folder, name, <<>>), sync_folder, hostname, None),
        entries, name, t)
CleanDeletes(entries, sync_folder, hostname, name, t) ==
    CleanDeletesParsed(
        parse_clipboard_filename(SyncPath(sync_folder, name, <<>>), sync_folder, hostname, None),
        entries, name, t)

\* clean_files(sync_folder, hostname) at time t
clean_files(m, sync_folder, hostname, t) ==
    IF ~IsDir(m, sync_folder) THEN Called(m, "clean")
    ELSE [Called(m, "clean") EXCEPT !.disk[sync_folder] =
            [n \in {x \in DOMAIN @ : ~CleanDeletes(@, sync_folder, hostname, x, t)} |-> @[n]]]

(***************************************************************************)
(* Orchestrator (main.rs)                                                   *)
(***************************************************************************)
\* write_keep_alive
write_keep_alive(m, sync_folder, hostname, t) ==
    IF ~IsDir(m, sync_folder) THEN Called(m, "keep_alive")
    ELSE [Called(m, "keep_alive") EXCEPT !.disk[sync_folder] =
            (KeepAliveName(hostname) :> FileEntry(t, "me", <<"raw">>)) @@ @]

\* update_tray_icon
update_tray_icon(m, icon) == [m EXCEPT !.state.current_icon = icon]
\* set_tray_tooltip
set_tray_tooltip(m, status) == [m EXCEPT !.os.tooltip = status]
\* set_icon_for_duration
set_icon_for_duration(st, icon, t) ==
    [st EXCEPT !.current_icon = icon,
               !.icon_revert_time = Some(t + ICON_FLASH_DURATION_SECS * 1000)]

\* Config::is_sending_anything, Config::is_receiving_anything
is_sending_anything(config) == config.send_texts \/ config.send_images \/ config.send_files
is_receiving_anything(config) ==
    config.receive_texts \/ config.receive_images \/ config.receive_files

\* start_fs_watcher: the watcher holds the folder and the hostname it was
\* started with; `ok` is whether the watcher could be constructed
start_fs_watcher(m, sync_folder, watch_mode, ok) ==
    [m EXCEPT !.state.fs_watcher =
        IF ok THEN Some([sync_folder |-> sync_folder, hostname |-> m.state.hostname,
                         kind |-> IF watch_mode = "Polling" THEN "poll" ELSE "native"])
        ELSE None]

\* initialize, lines 325-331: the sync command is started
InitCommandStarted(started, t) ==
    IF started.ret
    THEN [started.m EXCEPT !.state.sync_command_started_at = Some(t)]
    ELSE started.m
InitSyncCommand(m, t, inp) ==
    IF m.state.config.sync_command /= ""
    THEN InitCommandStarted(SyncCommandStart(m, m.state.config.sync_command, inp.spawn_ok), t)
    ELSE m
\* lines 333-337: the configured folder becomes the sync folder
InitSyncFolder(m) ==
    IF ~IsSome(m.state.sync_folder) /\ IsSome(m.state.config.folder)
    THEN [m EXCEPT !.state.sync_folder = m.state.config.folder]
    ELSE m
\* InitSending that starts the clipboard watcher whatever the configuration
InitSending_always(m) == [m EXCEPT !.state.clipboard_watcher_shutdown = Some("shutdown")]
\* lines 376: the clipboard watcher runs
InitSending(m) ==
    IF is_sending_anything(m.state.config)
    THEN [m EXCEPT !.state.clipboard_watcher_shutdown = Some("shutdown")]
    ELSE m
\* lines 379-391: the fs watcher and the first keep-alive
InitReceiving(m, t, inp) ==
    IF is_receiving_anything(m.state.config)
    THEN [write_keep_alive(
              start_fs_watcher(m, Unwrap(m.state.sync_folder), m.state.config.watch_mode,
                               inp.fs_watcher_ok),
              Unwrap(m.state.sync_folder), m.state.hostname, t)
          EXCEPT !.state.last_keep_alive = Some(t)]
    ELSE m
\* lines 393-398: the initial cleanup
InitCleanup(m, t) ==
    IF m.state.config.auto_cleanup
    THEN [clean_files(m, Unwrap(m.state.sync_folder), m.state.hostname, t)
          EXCEPT !.state.last_clean = Some(t)]
    ELSE m
\* lines 400-404
InitDone(m) ==
    set_tray_tooltip(update_tray_icon([m EXCEPT !.state.initialized = TRUE], "Working"), "")
\* lines 339-404: the early returns, then the watchers
InitWatchers(m, t, inp) ==
    IF ~IsSome(m.state.sync_folder) THEN set_tray_tooltip(m, "Please set a sync folder")
    ELSE IF ~IsDir(m, Unwrap(m.state.sync_folder))
    THEN set_tray_tooltip(m, "Waiting for folder...")
    ELSE IF is_sending_anything(m.state.config) /\ ~inp.clipboard_watcher_ok THEN m
    ELSE InitDone(InitCleanup(InitReceiving(InitSending(m), t, inp), t))

\* initialize at time t; inp says which of the constructions succeed:
\* [spawn_ok, clipboard_watcher_ok, fs_watcher_ok]
initialize(m0, t, inp) ==
    InitWatchers(InitSyncFolder(InitSyncCommand(Called(m0, "initialize"), t, inp)), t, inp)

\* uninitialize, lines 464-474: both watchers are dropped
UninitWatchers(m) ==
    [m EXCEPT !.state.clipboard_watcher_shutdown = None, !.state.fs_watcher = None]
\* lines 476-484: the keep-alive file is removed; an error is ignored
UninitKeepAlive(m) ==
    IF IsSome(m.state.sync_folder) /\ IsDir(m, Unwrap(m.state.sync_folder))
    THEN [m EXCEPT !.disk[Unwrap(m.state.sync_folder)] =
            Without(@, KeepAliveName(m.state.hostname))]
    ELSE m

\* uninitialize(reason); the calls record the call and its reason
uninitialize(m0, reason) ==
    [SyncCommandStop(UninitKeepAlive(UninitWatchers(
        set_tray_tooltip(update_tray_icon(Called(Called(m0, "uninitialize"), reason),
                                          "Suspended"),
                         reason))))
     EXCEPT !.state.initialized = FALSE]

\* check_idle_state that suspends without setting suspended_by_idle
check_idle_state_no_flag(m, t, idle, inp) ==
    IF ~IsSome(idle) THEN m
    ELSE IF Unwrap(idle) >= IDLE_TIMEOUT_SECS
    THEN IF m.state.initialized THEN uninitialize(m, "System is idle") ELSE m
    ELSE IF m.state.suspended_by_idle
    THEN initialize(Called([m EXCEPT !.state.suspended_by_idle = FALSE],
                           "log: System is no longer idle"), t, inp)
    ELSE m

\* check_idle_state; idle is the idle time in seconds, None when it cannot
\* be read
check_idle_state(m, t, idle, inp) ==
    IF ~IsSome(idle) THEN m
    ELSE IF Unwrap(idle) >= IDLE_TIMEOUT_SECS
    THEN IF m.state.initialized
         THEN uninitialize([m EXCEPT !.state.suspended_by_idle = TRUE], "System is idle")
         ELSE m
    ELSE IF m.state.suspended_by_idle
    THEN initialize(Called([m EXCEPT !.state.suspended_by_idle = FALSE],
                           "log: System is no longer idle"), t, inp)
    ELSE m

\* handle_timer_tick, lines 624-632: the flashed icon is reverted
TickRevertIcon(m, t) ==
    IF IsSome(m.state.icon_revert_time) /\ t >= Unwrap(m.state.icon_revert_time)
    THEN IF m.state.initialized
         THEN update_tray_icon([m EXCEPT !.state.icon_revert_time = None], "Working")
         ELSE [m EXCEPT !.state.icon_revert_time = None]
    ELSE m
\* lines 634-639: the health of the sync command
TickCommandExited(checked) ==
    IF IsSome(checked.status)
    THEN uninitialize(Called(checked.m, "notify: Sync command failed"), "Sync command failed")
    ELSE checked.m
TickCommandHealth(m) == TickCommandExited(SyncCommandCheck(m))
\* lines 643-652: the interval between two folder checks, in ms
InWait(m, t) ==
    /\ IsSome(m.state.sync_command_started_at)
    /\ t - Unwrap(m.state.sync_command_started_at) < SYNC_COMMAND_WAIT_SECS * 1000
\* FolderCheckInterval without the faster cadence after a spawn
FolderCheckInterval_slow(m, t) == 30000
FolderCheckInterval(m, t) == IF InWait(m, t) THEN 1000 ELSE 30000
TickClearWait(m, t) ==
    IF IsSome(m.state.sync_command_started_at) /\ ~InWait(m, t)
    THEN [m EXCEPT !.state.sync_command_started_at = None]
    ELSE m
\* lines 653-656
ShouldCheckFolder(m, t, interval) ==
    IF IsSome(m.state.last_folder_check)
    THEN t - Unwrap(m.state.last_folder_check) >= interval
    ELSE TRUE
\* lines 661-671
TickFolderChecked(m, t, inp) ==
    IF ~IsSome(m.state.sync_folder) THEN m
    ELSE IF ~m.state.initialized /\ IsDir(m, Unwrap(m.state.sync_folder))
    THEN initialize(m, t, inp)
    ELSE IF m.state.initialized /\ ~IsDir(m, Unwrap(m.state.sync_folder))
    THEN uninitialize(m, "Folder unavailable")
    ELSE m
\* lines 641-672
TickFolderCheck(m, t, inp) ==
    IF ShouldCheckFolder(TickClearWait(m, t), t, FolderCheckInterval(m, t))
    THEN TickFolderChecked([TickClearWait(m, t) EXCEPT !.state.last_folder_check = Some(t)],
                           t, inp)
    ELSE TickClearWait(m, t)
\* lines 686-697
TickKeepAlive(m, t) ==
    IF /\ is_receiving_anything(m.state.config)
       /\ (IsSome(m.state.last_keep_alive)
            => t - Unwrap(m.state.last_keep_alive) >= KEEP_ALIVE_INTERVAL_SECS * 1000)
    THEN [write_keep_alive(m, Unwrap(m.state.sync_folder), m.state.hostname, t)
          EXCEPT !.state.last_keep_alive = Some(t)]
    ELSE m
\* lines 699-710
TickClean(m, t) ==
    IF /\ m.state.config.auto_cleanup
       /\ (IsSome(m.state.last_clean) => t - Unwrap(m.state.last_clean) >= 60000)
    THEN [clean_files(m, Unwrap(m.state.sync_folder), m.state.hostname, t)
          EXCEPT !.state.last_clean = Some(t)]
    ELSE m
\* lines 677-710
TickMaintenance(m, t) ==
    IF ~m.state.initialized THEN m
    ELSE IF ~IsSome(m.state.sync_folder) THEN m
    ELSE TickClean(TickKeepAlive(m, t), t)

\* handle_timer_tick at time t
handle_timer_tick(m0, t, idle, inp) ==
    TickMaintenance(
        check_idle_state(
            TickFolderCheck(TickCommandHealth(TickRevertIcon(m0, t)), t, inp),
            t, idle, inp),
        t)

(***************************************************************************)
(* Event handlers of the dispatcher (main.rs)                               *)
(***************************************************************************)
ClipboardChanged == [type |-> "ClipboardChanged", path |-> SyncPath("", <<>>, <<>>)]
ClipboardFileDetected(path) == [type |-> "ClipboardFileDetected", path |-> path]
Reload == [type |-> "Reload", path |-> SyncPath("", <<>>, <<>>)]

\* the outcomes of what initialize constructs: the spawn of the sync
\* command, the clipboard watcher and the fs watcher
AllOk == [spawn_ok |-> TRUE, clipboard_watcher_ok |-> TRUE, fs_watcher_ok |-> TRUE]

\* (io holds the outcomes of the calls into the operating system a pipeline
\* made: the clipboard opened, the write or the clipboard set succeeded,
\* the copies that failed)
\* what a step reports: the handler that ran, whether a pipeline was
\* invoked and what it returned, the calls the handler made, whether
\* every call into the operating system succeeded, and for the handlers
\* that take them the construction outcomes and the idle time they met
Report(op, invoked, ret, clipRead, clipSet, path, calls) ==
    [op |-> op, invoked |-> invoked, ret |-> ret, clipRead |-> clipRead,
     clipSet |-> clipSet, path |-> path, calls |-> calls, ok |-> TRUE,
     inp |-> AllOk, idle |-> None, removed |-> {}, action |-> "",
     io |-> [ctx_ok |-> TRUE, write_ok |-> TRUE, failing |-> {}]]
Quiet(op) == Report(op, FALSE, FALSE, FALSE, FALSE, SyncPath("", <<>>, <<>>), <<>>)

\* the file name of a path: its last component
FileName(path) == IF path.child /= <<>> THEN path.child ELSE path.name

\* decoding without an origin filter
FsEventFilter_none == None

\* the origin filter the fs watcher and the dispatcher decode with
FsEventFilter == Some("Others")

\* handle_fs_event for one created or modified path: the events posted
FsEventParsed(parsed) ==
    IF IsSome(parsed) THEN <<ClipboardFileDetected(Unwrap(parsed).path)>> ELSE <<>>
handle_fs_event(path, sync_folder, hostname) ==
    IF /\ Contains(FileName(path), <<"~", "R", "F">>)
       /\ EndsWith(FileName(path), <<".", "T", "M", "P">>)
    THEN <<>>
    ELSE FsEventParsed(parse_clipboard_filename(path, sync_folder, hostname, FsEventFilter))

\* merge what a pipeline wrote below the reachable roots into the disk
MergeDisk(d, fs) == [r \in DOMAIN d |-> IF r \in DOMAIN fs THEN fs[r] ELSE d[r]]

\* handle_clipboard_changed, lines 560-574: w is what the writer returned
\* at time beat
ChangedWritten(m, beat, w) ==
    [m |-> [m EXCEPT !.state = IF w.ret THEN set_icon_for_duration(w.state, "Sent", beat)
                                ELSE w.state,
                     !.disk = MergeDisk(m.disk, w.fs)],
     now |-> beat,
     report |-> Report("clipboard_changed", TRUE, w.ret, w.clipRead, FALSE,
                       SyncPath("", <<>>, <<>>), <<>>)]

\* Debounced that also drops the event that comes exactly one debounce
\* interval after the last accepted one
Debounced_inclusive(st, t) ==
    IsSome(st.last_clipboard_event)
        /\ t - Unwrap(st.last_clipboard_event) <= CLIPBOARD_DEBOUNCE_MS
\* lines 548-554
Debounced(st, t) ==
    IsSome(st.last_clipboard_event)
        /\ t - Unwrap(st.last_clipboard_event) < CLIPBOARD_DEBOUNCE_MS

\* handle_clipboard_changed at time t.  The result is [m, now, report].
handle_clipboard_changed(m, t, ctx, io) ==
    IF ~m.state.initialized \/ ~IsSome(m.state.sync_folder) \/ Debounced(m.state, t)
    THEN [m |-> m, now |-> t, report |-> Quiet("clipboard_changed")]
    ELSE ChangedWritten(m, t + CLIPBOARD_WRITE_DELAY_MS,
            write_clipboard_to_file(Reachable(m), Unwrap(m.state.sync_folder),
                m.state.hostname, m.state.config,
                [m.state EXCEPT !.last_clipboard_event = Some(t)],
                t + CLIPBOARD_WRITE_DELAY_MS, ctx, io))

\* handle_clipboard_file_detected, lines 601-614: r is what the reader
\* returned at time beat for the artifact at path
FileDetectedRead(m, beat, path, ctx, r) ==
    [m |-> [m EXCEPT !.state = IF r.ret
                                THEN set_icon_for_duration(r.state, "Received", beat)
                                ELSE r.state],
     now |-> beat, clip |-> r.clip,
     report |-> Report("file_detected", TRUE, r.ret, IsSome(ctx), r.clipSet, path, <<>>)]
FileDetectedParsed(m, beat, parsed, ctx, set_ok) ==
    IF ~IsSome(parsed)
    THEN [m |-> m, now |-> beat, clip |-> ctx, report |-> Quiet("file_detected")]
    ELSE FileDetectedRead(m, beat, Unwrap(parsed).path, ctx,
            read_clipboard_from_file(Unwrap(parsed), m.state.config, m.state,
                                     Reachable(m), beat, ctx, set_ok))

\* handle_clipboard_file_detected without the check of initialized
handle_clipboard_file_detected_unguarded(m, t, path, ctx, set_ok) ==
    IF ~IsSome(m.state.sync_folder)
    THEN [m |-> m, now |-> t, clip |-> ctx, report |-> Quiet("file_detected")]
    ELSE FileDetectedParsed(m, t + FILE_DETECTED_DELAY_MS,
            parse_clipboard_filename(path, Unwrap(m.state.sync_folder), m.state.hostname,
                                     FsEventFilter),
            ctx, set_ok)

\* handle_clipboard_file_detected at time t.  The result is
\* [m, now, clip, report].
handle_clipboard_file_detected(m, t, path, ctx, set_ok) ==
    IF ~m.state.initialized \/ ~IsSome(m.state.sync_folder)
    THEN [m |-> m, now |-> t, clip |-> ctx, report |-> Quiet("file_detected")]
    ELSE FileDetectedParsed(m, t + FILE_DETECTED_DELAY_MS,
            parse_clipboard_filename(path, Unwrap(m.state.sync_folder), m.state.hostname,
                                     FsEventFilter),
            ctx, set_ok)

\* Event::UserEvent(UserEvent::Reload), main.rs lines 297-300
HandleReload(m, t, inp) == initialize(uninitialize(m, "Reloading..."), t, inp)

\* a menu arm that changes the configuration: save_config, then Reload
MenuSaved(m) == [m |-> Called(m, "save_config"), events |-> <<Reload>>, exit |-> FALSE]
MenuNothing(m) == [m |-> m, events |-> <<>>, exit |-> FALSE]
\* the toggles and the watch modes, lines 833-877
MenuToggle(m, action) ==
    CASE action = "ToggleSendTexts" -> [m EXCEPT !.state.config.send_texts = ~@]
      [] action = "ToggleSendImages" -> [m EXCEPT !.state.config.send_images = ~@]
      [] action = "ToggleSendFiles" -> [m EXCEPT !.state.config.send_files = ~@]
      [] action = "ToggleReceiveTexts" -> [m EXCEPT !.state.config.receive_texts = ~@]
      [] action = "ToggleReceiveImages" -> [m EXCEPT !.state.config.receive_images = ~@]
      [] action = "ToggleReceiveFiles" -> [m EXCEPT !.state.config.receive_files = ~@]
      [] action = "SetWatchModeNative" -> [m EXCEPT !.state.config.watch_mode = "Native"]
      [] action = "SetWatchModePolling" -> [m EXCEPT !.state.config.watch_mode = "Polling"]
      [] action = "ToggleAutoCleanup" -> [m EXCEPT !.state.config.auto_cleanup = ~@]
ToggleActions ==
    {"ToggleSendTexts", "ToggleSendImages", "ToggleSendFiles", "ToggleReceiveTexts",
     "ToggleReceiveImages", "ToggleReceiveFiles", "SetWatchModeNative", "SetWatchModePolling",
     "ToggleAutoCleanup"}

\* handle_menu_event; picked is what the dialog of the action returns
\* (pick_folder, input_box), None when it is cancelled.  The result is
\* [m, events, exit]: the machine, the events posted and whether the
\* process exits.  The match of lines 810-829 and the match of lines 832-953
\* name no arm for SetWatchModePollingHarder: nothing is done for it.
\* OpenFolder, RestartOneDrive, CheckForUpdates and OpenGitHub touch nothing
\* the model holds.
handle_menu_event(m, action, picked) ==
    CASE action \in ToggleActions -> MenuSaved(MenuToggle(m, action))
      [] action = "SetSyncCommand" ->
            IF IsSome(picked)
            THEN MenuSaved([m EXCEPT !.state.config.sync_command = Unwrap(picked)])
            ELSE MenuNothing(m)
      [] action = "ChangeFolder" ->
            IF IsSome(picked)
            THEN MenuSaved([m EXCEPT !.state.config.folder = picked,
                                     !.state.sync_folder = picked])
            ELSE MenuNothing(m)
      [] action = "Quit" ->
            [m |-> uninitialize(m, "Exiting..."), events |-> <<>>, exit |-> TRUE]
      [] OTHER -> MenuNothing(m)

(***************************************************************************)
(* Initial state                                                            *)
(***************************************************************************)
\* Config::default() with a folder chosen
DefaultConfig ==
    [folder |-> Some("sync"), send_texts |-> TRUE, send_images |-> TRUE, send_files |-> TRUE,
     receive_texts |-> TRUE, receive_images |-> TRUE, receive_files |-> TRUE,
     auto_cleanup |-> TRUE, watch_mode |-> "Native", sync_command |-> ""]

\* the AppState main() constructs
InitAppState(config, hostname) ==
    [config |-> config, hostname |-> hostname, sync_folder |-> config.folder,
     initialized |-> FALSE,
     last_beat |-> None, last_text_written |-> None, last_text_read |-> None,
     last_image_sha256_written |-> None, last_image_sha256_read |-> None,
     last_file_paths_read |-> None,
     clipboard_watcher_shutdown |-> None, fs_watcher |-> None,
     sync_command |-> [child |-> None],
     current_icon |-> "Suspended", icon_revert_time |-> None,
     last_clipboard_event |-> None, suspended_by_idle |-> FALSE,
     last_keep_alive |-> None, last_clean |-> None, last_folder_check |-> None,
     sync_command_started_at |-> None]

\* the hosts of the model
LocalHost == <<"p", "c", "1">>
PeerHost == <<"p", "c", "2">>

(***************************************************************************)
(* Actions                                                                  *)
(***************************************************************************)
Commit(m) == state' = m.state /\ disk' = m.disk /\ os' = m.os

\* the entries of d that d2 no longer holds, as <<folder, name>>
Removed(d, d2) ==
    UNION {{<<f, n>> : n \in {x \in DOMAIN d[f] : x \notin DOMAIN d2[f]}} : f \in DOMAIN d}
\* the reasons uninitialize is called with
Reasons ==
    {"Reloading...", "Sync command failed", "Folder unavailable", "System is idle",
     "Exiting..."}
\* the calls that start or end a cycle of the orchestrator: initialize, and
\* uninitialize (recorded by its reason)
IsLifeCall(c) == c = "initialize" \/ c \in Reasons
\* the history of cycles: the life calls made so far, oldest first
NoteLife(h, calls) == [h EXCEPT !.life = @ \o SelectSeq(calls, IsLifeCall)]

\* Event::NewEvents(StartCause::Init): the first initialize
Started(m, inp) ==
    /\ state' = m.state
    /\ disk' = m.disk
    /\ os' = [m.os EXCEPT !.started = TRUE]
    /\ ev' = [Quiet("start") EXCEPT !.calls = m.calls, !.inp = inp,
                                    !.removed = Removed(disk, m.disk)]
    /\ hist' = NoteLife(hist, m.calls)
Start(inp) ==
    /\ ~os.started
    /\ Started(initialize(Machine, now, inp), inp)
    /\ UNCHANGED <<now, clip, queue, budget, call>>

\* the user copies c: the clipboard watcher, when one runs, posts
\* UserEvent::ClipboardChanged
UserCopy(c) ==
    /\ os.started
    /\ budget > 0
    /\ Len(queue) < MaxQueue
    /\ clip' = c
    /\ queue' = IF IsSome(state.clipboard_watcher_shutdown)
                THEN Append(queue, ClipboardChanged) ELSE queue
    /\ budget' = budget - 1
    /\ ev' = Quiet("env")
    /\ UNCHANGED <<now, disk, state, os, hist, call>>

\* time passes
AdvanceClock(d) ==
    /\ os.started
    /\ budget > 0
    /\ now' = now + d
    /\ budget' = budget - 1
    /\ ev' = Quiet("env")
    /\ UNCHANGED <<clip, disk, state, queue, os, hist, call>>

\* the replication brings the peer's presence marker, `age` ms old
PeerKeepAlive(age) ==
    /\ os.started
    /\ budget > 0
    /\ disk' = [disk EXCEPT !["sync"] =
                    (KeepAliveName(PeerHost) :> FileEntry(now - age, "peer", <<"raw">>)) @@ @]
    /\ budget' = budget - 1
    /\ ev' = Quiet("env")
    /\ UNCHANGED <<now, clip, state, queue, os, hist, call>>

\* the peer shut down: its marker is gone
PeerLeaves ==
    /\ os.started
    /\ budget > 0
    /\ KeepAliveName(PeerHost) \in DOMAIN disk["sync"]
    /\ disk' = [disk EXCEPT !["sync"] = Without(@, KeepAliveName(PeerHost))]
    /\ budget' = budget - 1
    /\ ev' = Quiet("env")
    /\ UNCHANGED <<now, clip, state, queue, os, hist, call>>

\* the replication brings an artifact a peer wrote: a == [name, isDir, body]
PeerPut(a) ==
    /\ os.started
    /\ budget > 0
    /\ a.name \notin DOMAIN disk["sync"]
    /\ disk' = [disk EXCEPT !["sync"] =
                    (a.name :> [isDir |-> a.isDir, mtime |-> now, author |-> "peer",
                                body |-> a.body]) @@ @]
    /\ budget' = budget - 1
    /\ ev' = Quiet("env")
    /\ UNCHANGED <<now, clip, state, queue, os, hist, call>>

\* the replication brings one more file of a peer's Files artifact
PeerAddChild(name, child, meta) ==
    /\ os.started
    /\ budget > 0
    /\ name \in DOMAIN disk["sync"]
    /\ disk["sync"][name].isDir
    /\ disk["sync"][name].author = "peer"
    /\ child \notin DOMAIN disk["sync"][name].body[2]
    /\ disk' = [disk EXCEPT !["sync"][name].body[2] = (child :> meta) @@ @]
    /\ budget' = budget - 1
    /\ ev' = Quiet("env")
    /\ UNCHANGED <<now, clip, state, queue, os, hist, call>>

\* the paths the fs watcher can report in the folder it watches: the
\* entries of the folder and the files inside its directories
WatchedPaths(d, folder) ==
    IF folder \notin DOMAIN d THEN {}
    ELSE {SyncPath(folder, n, <<>>) : n \in DOMAIN d[folder]}
         \cup UNION {{SyncPath(folder, n, c) : c \in DOMAIN d[folder][n].body[2]} :
                        n \in {x \in DOMAIN d[folder] : d[folder][x].isDir}}

Posted(events) ==
    /\ Len(queue) + Len(events) <= MaxQueue
    /\ queue' = queue \o events

\* the fs watcher reports a created or modified path: handle_fs_event runs
\* on the watcher's thread with the folder and hostname the watcher was
\* started with
FsNotify(path) ==
    /\ budget > 0
    /\ IsSome(state.fs_watcher)
    /\ path \in WatchedPaths(Reachable(Machine), Unwrap(state.fs_watcher).sync_folder)
    /\ Posted(handle_fs_event(path, Unwrap(state.fs_watcher).sync_folder,
                              Unwrap(state.fs_watcher).hostname))
    /\ budget' = budget - 1
    /\ ev' = [Quiet("fs_event") EXCEPT !.path = path]
    /\ UNCHANGED <<now, clip, disk, state, os, hist, call>>

Ticked(m, idle, inp) ==
    /\ Commit(m)
    /\ ev' = [Quiet("timer_tick") EXCEPT !.calls = m.calls, !.inp = inp, !.idle = idle,
                                         !.removed = Removed(disk, m.disk)]
    /\ hist' = NoteLife(hist, m.calls)

\* the periodic timer fires: handle_timer_tick
Tick(idle, inp) ==
    /\ os.started /\ ~os.exited
    /\ budget > 0
    /\ Ticked(handle_timer_tick(Machine, now, idle, inp), idle, inp)
    /\ budget' = budget - 1
    /\ UNCHANGED <<now, clip, queue, call>>

\* The history the properties are stated over (the program has no such
\* record): per kind the clipboard value last written as an artifact and when;
\* the clipboard value the reader last applied, when, from which artifact
\* (its path, beat and entry), whether an artifact was written since, and the
\* beats of all artifacts applied; the Files artifacts whose last read found
\* fewer or more files than their name encodes.
KindOf(c) == IF IsSome(c.files) THEN "Files" ELSE IF IsSome(c.image) THEN "Image" ELSE "Text"
NoHistory ==
    [wrote |-> [k \in {"Text", "Image", "Files"} |-> None], applied |-> None, beats |-> {},
     partial |-> {}, life |-> <<>>, invoked |-> None]
NoteWritten(h, c, t) ==
    [h EXCEPT !.wrote[KindOf(c)] = Some([clip |-> c, at |-> t]),
              !.applied = IF IsSome(@) THEN Some([Unwrap(@) EXCEPT !.wroteSince = TRUE]) ELSE @]
NoteApplied(h, c, t, path, d) ==
    LET beat == ParseDecimal(Unwrap(FILE_NAME_REGEX(path.name)).g1)
    IN  [h EXCEPT !.applied = Some([clip |-> c, at |-> t, path |-> path, beat |-> beat,
                                    entry |-> d[path.root][path.name],
                                    wroteSince |-> FALSE]),
                  !.beats = @ \cup {beat},
                  !.partial = @ \ {path.name}]

\* the files present below the entry `name` of the sync folder, and the
\* count its name encodes
FilesPresent(d, name) ==
    IF name \in DOMAIN d["sync"] /\ d["sync"][name].isDir
    THEN SumOver(d["sync"][name].body[2], DOMAIN d["sync"][name].body[2], "nfiles")
    ELSE 0
IsFilesArtifact(name) ==
    IsSome(FILE_NAME_REGEX(name)) /\ IsSome(Unwrap(FILE_NAME_REGEX(name)).g5)
EncodedCount(name) == ParseDecimal(Unwrap(Unwrap(FILE_NAME_REGEX(name)).g5))
Incomplete(d, name) == IsFilesArtifact(name) /\ FilesPresent(d, name) /= EncodedCount(name)
NotePartial(h, report, d) ==
    IF report.invoked /\ ~report.ret /\ Incomplete(d, report.path.name)
    THEN [h EXCEPT !.partial = @ \cup {report.path.name}]
    ELSE h

\* the paths of the clipboard's file list (the copies that may fail)
ClipFiles == IF IsSome(clip.files) THEN {Unwrap(clip.files)[i] : i \in 1..Len(Unwrap(clip.files))}
             ELSE {}

\* the time of the last invocation of the writer
NoteInvoked(h, report, t) == IF report.invoked THEN [h EXCEPT !.invoked = Some(t)] ELSE h

\* Event::UserEvent(UserEvent::ClipboardChanged)
ChangedHandled(r, ctx_ok, io) ==
    /\ Commit(r.m)
    /\ now' = r.now
    /\ ev' = [r.report EXCEPT !.ok = ctx_ok /\ io.write_ok /\ io.failing = {},
                              !.io = [ctx_ok |-> ctx_ok, write_ok |-> io.write_ok,
                                      failing |-> io.failing]]
    /\ hist' = NoteInvoked(IF r.report.ret THEN NoteWritten(hist, clip, r.now) ELSE hist,
                            r.report, r.now)
DispatchClipboardChanged ==
    /\ Len(queue) > 0
    /\ Head(queue).type = "ClipboardChanged"
    /\ \E ctx_ok \in BOOLEAN, write_ok \in BOOLEAN, failing \in SUBSET ClipFiles :
        ChangedHandled(
            handle_clipboard_changed(Machine, now, IF ctx_ok THEN Some(clip) ELSE None,
                                     [write_ok |-> write_ok, failing |-> failing]),
            ctx_ok, [write_ok |-> write_ok, failing |-> failing])
    /\ queue' = Tail(queue)
    /\ UNCHANGED <<clip, budget, call>>

\* Event::UserEvent(UserEvent::ClipboardFileDetected(path)); a clipboard
\* set makes the clipboard watcher, when one runs, post ClipboardChanged
FileDetectedHandled(r, ctx_ok, set_ok) ==
    /\ Commit(r.m)
    /\ now' = r.now
    /\ clip' = IF r.report.clipSet THEN Unwrap(r.clip) ELSE clip
    /\ queue' = IF r.report.clipSet /\ IsSome(state.clipboard_watcher_shutdown)
                THEN Append(Tail(queue), ClipboardChanged)
                ELSE Tail(queue)
    /\ ev' = [r.report EXCEPT !.ok = ctx_ok /\ set_ok,
                              !.io = [ctx_ok |-> ctx_ok, write_ok |-> set_ok, failing |-> {}]]
    /\ hist' = IF r.report.clipSet
               THEN NoteApplied(hist, Unwrap(r.clip), r.now, r.report.path, disk)
               ELSE NotePartial(hist, r.report, disk)
DispatchClipboardFileDetected ==
    /\ Len(queue) > 0
    /\ Head(queue).type = "ClipboardFileDetected"
    /\ \E ctx_ok \in BOOLEAN, set_ok \in BOOLEAN :
        FileDetectedHandled(
            handle_clipboard_file_detected(Machine, now, Head(queue).path,
                                           IF ctx_ok THEN Some(clip) ELSE None, set_ok),
            ctx_ok, set_ok)
    /\ UNCHANGED <<budget, call>>

\* Event::UserEvent(UserEvent::Reload)
Reloaded(m, inp) ==
    /\ Commit(m)
    /\ ev' = [Quiet("reload") EXCEPT !.calls = m.calls, !.inp = inp,
                                     !.removed = Removed(disk, m.disk)]
    /\ hist' = NoteLife(hist, m.calls)
DispatchReload(inp) ==
    /\ Len(queue) > 0
    /\ Head(queue).type = "Reload"
    /\ Reloaded(HandleReload(Machine, now, inp), inp)
    /\ queue' = Tail(queue)
    /\ UNCHANGED <<now, clip, budget, call>>

\* Event::UserEvent(UserEvent::Menu(..)): the user picks a menu entry.  On
\* exit the process ends and the events still queued are lost.
MenuHandled(r, action) ==
    /\ state' = r.m.state
    /\ disk' = r.m.disk
    /\ os' = [r.m.os EXCEPT !.exited = r.exit]
    /\ Len(queue) + Len(r.events) <= MaxQueue
    /\ queue' = IF r.exit THEN <<>> ELSE queue \o r.events
    /\ ev' = [Quiet(IF action = "Quit" THEN "quit" ELSE "menu")
                EXCEPT !.calls = r.m.calls, !.removed = Removed(disk, r.m.disk),
                       !.action = action]
    /\ hist' = NoteLife(hist, r.m.calls)
MenuEvent(action, picked) ==
    /\ os.started /\ ~os.exited
    /\ budget > 0
    /\ MenuHandled(handle_menu_event(Machine, action, picked), action)
    /\ budget' = budget - 1
    /\ UNCHANGED <<now, clip, call>>

\* the sync folder f becomes unreachable, or reachable again
FolderReachable(f, b) ==
    /\ ~os.exited
    /\ budget > 0
    /\ os.is_dir[f] /= b
    /\ os' = [os EXCEPT !.is_dir[f] = b]
    /\ budget' = budget - 1
    /\ ev' = Quiet("env")
    /\ UNCHANGED <<now, clip, disk, state, queue, hist, call>>

\* the sync command exits on its own
CommandExits ==
    /\ budget > 0
    /\ os.child = "running"
    /\ os' = [os EXCEPT !.child = "exited", !.live = @ - 1]
    /\ budget' = budget - 1
    /\ ev' = Quiet("env")
    /\ UNCHANGED <<now, clip, disk, state, queue, hist, call>>

(***************************************************************************)
(* Inputs of the model                                                      *)
(***************************************************************************)
TextA == [text |-> Some("hello"), html |-> None, rtf |-> None]
TextB == [text |-> Some("world"), html |-> Some("<b>world</b>"), rtf |-> None]
TextEmpty == [text |-> Some(""), html |-> None, rtf |-> None]
FilesA == <<LocalPath(<<"a">>), LocalPath(<<"d">>)>>
FilesBig == <<LocalPath(<<"b">>)>>

\* no codec call is examined
\* a call of the codec: the inputs, the name formed, what was decoded
CodecCall(op, beat, host, kind, count, local, filter, child, name, parsed) ==
    [op |-> op, beat |-> beat, host |-> host, kind |-> kind, count |-> count, local |-> local,
     filter |-> filter, child |-> child, name |-> name, parsed |-> parsed]
NoCall == CodecCall("none", 1, <<>>, "Text", None, <<>>, None, <<>>, None, None)

\* the state before the event loop starts
InitWith(config, hostname, entries, n) ==
    /\ now = T0
    /\ clip = EmptyClipboard
    /\ disk = [r \in {"sync"} |-> entries]
    /\ state = InitAppState(config, hostname)
    /\ queue = <<>>
    /\ os = [is_dir |-> [r \in {"sync"} |-> TRUE], child |-> "none", tooltip |-> "",
             started |-> FALSE, exited |-> FALSE, live |-> 0]
    /\ ev = Quiet("env")
    /\ hist = NoHistory
    /\ budget = n
    /\ call = NoCall

NoEntries == [n \in {} |-> 0]

(***************************************************************************)
(* SpecSend: the user copies, the Sync Writer sends                         *)
(***************************************************************************)
MaxSendInputs == 4
SendClips ==
    {ClipboardSetText(TextA), ClipboardSetText(TextB), ClipboardSetText(TextEmpty),
     ClipboardSetImage("img1"), ClipboardSetFiles(FilesA), ClipboardSetFiles(<<>>),
     ClipboardSetFiles(FilesBig)}
SendConfigs == {DefaultConfig, [DefaultConfig EXCEPT !.send_texts = FALSE]}
SendClockSteps ==
    {CLIPBOARD_DEBOUNCE_MS - CLIPBOARD_WRITE_DELAY_MS,
     DUPLICATE_WINDOW_MS - CLIPBOARD_WRITE_DELAY_MS - 1,
     DUPLICATE_WINDOW_MS - CLIPBOARD_WRITE_DELAY_MS}
\* the marker is just fresh, or just stale, when the writer looks
MarkerAges ==
    {0, STALE_THRESHOLD_SECS * 1000 - CLIPBOARD_WRITE_DELAY_MS,
     STALE_THRESHOLD_SECS * 1000 - CLIPBOARD_WRITE_DELAY_MS + 1}

SendInit == \E config \in SendConfigs : InitWith(config, LocalHost, NoEntries, MaxSendInputs)
SendNext ==
    \/ Start(AllOk)
    \/ \E c \in SendClips : UserCopy(c)
    \/ \E d \in SendClockSteps : AdvanceClock(d)
    \/ \E age \in MarkerAges : PeerKeepAlive(age)
    \/ PeerLeaves
    \/ DispatchClipboardChanged
SpecSend == SendInit /\ [][SendNext]_vars

(***************************************************************************)
(* SpecRecv: peers' artifacts arrive, the Sync Reader applies them          *)
(***************************************************************************)
MaxRecvInputs == 4
PeerText(beat, ct) ==
    [name |-> TextFileName(beat, PeerHost), isDir |-> FALSE, body |-> ToJson(ct)]
PeerImage(beat, img) ==
    [name |-> ImageFileName(beat, PeerHost), isDir |-> FALSE, body |-> ToPng(img)]
PeerFiles(beat, files_count, children) ==
    [name |-> FilesFolderName(beat, PeerHost, files_count), isDir |-> TRUE,
     body |-> <<"dir", children>>]
RemoteFile == [isDir |-> FALSE, nfiles |-> 1, sizeMB |-> 1]
RemoteChildren == {<<"x">>, <<"y">>}
\* the peer's clock may be behind or ahead of this host's
RecvArtifacts ==
    {PeerText(T0 - 5000, TextA), PeerText(T0 - 1000, TextB),
     PeerText(T0 + 300, TextA), PeerText(T0 + 5000, TextB),
     PeerImage(T0 - 3000, "img2"),
     [name |-> ImageFileName(T0 - 2000, PeerHost), isDir |-> FALSE, body |-> <<"raw">>],
     PeerFiles(T0 - 4000, 2, [c \in {<<"x">>} |-> RemoteFile]),
     PeerFiles(T0 - 3500, 2, [c \in RemoteChildren |-> RemoteFile])}
PeerListening == KeepAliveName(PeerHost) :> FileEntry(T0, "peer", <<"raw">>)

RecvInit == InitWith(DefaultConfig, LocalHost, PeerListening, MaxRecvInputs)
RecvNext ==
    \/ Start(AllOk)
    \/ \E a \in RecvArtifacts : PeerPut(a)
    \/ \E name \in DOMAIN disk["sync"], child \in RemoteChildren :
            PeerAddChild(name, child, RemoteFile)
    \/ \E path \in WatchedPaths(disk, "sync") : FsNotify(path)
    \/ Tick(Some(0), AllOk)
    \/ DispatchClipboardFileDetected
    \/ DispatchClipboardChanged
SpecRecv == RecvInit /\ [][RecvNext]_vars

(***************************************************************************)
(* SpecLoop: the user copies while peers' artifacts arrive                  *)
(***************************************************************************)
MaxLoopInputs == 4
LoopClips ==
    {ClipboardSetText(TextA), ClipboardSetImage("img2"), ClipboardSetFiles(FilesA)}
LoopArtifacts ==
    {PeerText(T0 - 5000, TextA), PeerImage(T0 - 3000, "img2"),
     PeerFiles(T0 - 3500, 2, [c \in RemoteChildren |-> RemoteFile])}
\* the writer runs just inside, or just outside, the duplicate window that
\* an apply opened
LoopClockSteps ==
    {DUPLICATE_WINDOW_MS - FILE_DETECTED_DELAY_MS - 1,
     DUPLICATE_WINDOW_MS - FILE_DETECTED_DELAY_MS}

LoopInit == InitWith(DefaultConfig, LocalHost, PeerListening, MaxLoopInputs)
LoopNext ==
    \/ Start(AllOk)
    \/ \E c \in LoopClips : UserCopy(c)
    \/ \E d \in LoopClockSteps : AdvanceClock(d)
    \/ \E a \in LoopArtifacts : PeerPut(a)
    \/ \E path \in WatchedPaths(disk, "sync") : FsNotify(path)
    \/ DispatchClipboardFileDetected
    \/ DispatchClipboardChanged
SpecLoop == LoopInit /\ [][LoopNext]_vars

(***************************************************************************)
(* SpecAgain: filesystem events repeat for an artifact of a peer whose      *)
(* clock is ahead, while the user copies in between                         *)
(***************************************************************************)
MaxAgainInputs == 4
AgainClips == {ClipboardSetText(TextA)}
AgainArtifacts == {PeerText(T0 + 5000, TextB), PeerText(T0 - 5000, TextA)}
AgainInit == InitWith(DefaultConfig, LocalHost, PeerListening, MaxAgainInputs)
AgainNext ==
    \/ Start(AllOk)
    \/ \E c \in AgainClips : UserCopy(c)
    \/ \E a \in AgainArtifacts : PeerPut(a)
    \/ \E path \in WatchedPaths(disk, "sync") : FsNotify(path)
    \/ DispatchClipboardFileDetected
    \/ DispatchClipboardChanged
SpecAgain == AgainInit /\ [][AgainNext]_vars

(***************************************************************************)
(* SpecNames: the writer names its artifacts, on hosts of several names     *)
(***************************************************************************)
MaxNamesInputs == 3
\* gethostname up to the first dot: a name of letters and digits, and a name
\* with an underscore
NamesHosts == {LocalHost, <<"m", "y", "_", "p", "c">>}
NamesClips ==
    {ClipboardSetText(TextA), ClipboardSetImage("img1"), ClipboardSetFiles(FilesA),
     ClipboardSetFiles(<<LocalPath(<<"e">>)>>)}
NamesInit == \E hostname \in NamesHosts : InitWith(DefaultConfig, hostname, PeerListening, MaxNamesInputs)
NamesNext ==
    \/ Start(AllOk)
    \/ \E c \in NamesClips : UserCopy(c)
    \/ AdvanceClock(CLIPBOARD_DEBOUNCE_MS)
    \/ DispatchClipboardChanged
SpecNames == NamesInit /\ [][NamesNext]_vars

(***************************************************************************)
(* SpecSettle: the user copies and then leaves the clipboard alone; the     *)
(* clipboard opens and the writes succeed; every queued event is handled    *)
(* and the timer keeps ticking                                              *)
(***************************************************************************)
MaxSettleInputs == 3
SettleClips == {ClipboardSetText(TextA), ClipboardSetText(TextB)}
SettleInit == InitWith(DefaultConfig, LocalHost, PeerListening, MaxSettleInputs)
\* the event loop takes the ClipboardChanged event, no call of the OS fails
SettleDispatch == DispatchClipboardChanged /\ ev'.ok
SettleNext ==
    \/ Start(AllOk)
    \/ \E c \in SettleClips : UserCopy(c)
    \/ AdvanceClock(CLIPBOARD_DEBOUNCE_MS)
    \/ Tick(Some(0), AllOk)
    \/ SettleDispatch
SpecSettle ==
    /\ SettleInit /\ [][SettleNext]_vars
    /\ WF_vars(SettleDispatch)
    /\ WF_vars(Tick(Some(0), AllOk))

(***************************************************************************)
(* SpecLife: the cycles of the orchestrator                                 *)
(***************************************************************************)
MaxLifeInputs == 4
CommandConfig == [DefaultConfig EXCEPT !.sync_command = "cmd"]
\* everything is constructed, or one of the three constructions fails
LifeOutcomes ==
    {AllOk, [AllOk EXCEPT !.spawn_ok = FALSE], [AllOk EXCEPT !.clipboard_watcher_ok = FALSE],
     [AllOk EXCEPT !.fs_watcher_ok = FALSE]}
\* no idle time could be read, the user is active, the user is idle
IdleTimes == {None, Some(0), Some(IDLE_TIMEOUT_SECS)}
LifeFolders == {"sync", "other"}
LifeClockSteps == {1000, 30000}

LifeInit ==
    /\ now = T0
    /\ clip = ClipboardSetText(TextA)
    /\ disk = [r \in LifeFolders |-> IF r = "sync" THEN PeerListening ELSE NoEntries]
    /\ state = InitAppState(CommandConfig, LocalHost)
    /\ queue = <<>>
    /\ os = [is_dir |-> [r \in LifeFolders |-> TRUE], child |-> "none", tooltip |-> "",
             started |-> FALSE, exited |-> FALSE, live |-> 0]
    /\ ev = Quiet("env")
    /\ hist = NoHistory
    /\ budget = MaxLifeInputs
    /\ call = NoCall
LifeNext ==
    \/ \E inp \in LifeOutcomes : Start(inp)
    \/ \E idle \in IdleTimes, inp \in LifeOutcomes : Tick(idle, inp)
    \/ \E d \in LifeClockSteps : AdvanceClock(d)
    \/ \E b \in BOOLEAN : FolderReachable("sync", b)
    \/ CommandExits
    \/ \E f \in LifeFolders : MenuEvent("ChangeFolder", Some(f))
    \/ MenuEvent("Quit", None)
    \/ \E inp \in LifeOutcomes : DispatchReload(inp)
    \/ UserCopy(ClipboardSetText(TextB))
    \/ DispatchClipboardChanged
SpecLife == LifeInit /\ [][LifeNext]_vars

(***************************************************************************)
(* SpecCodec: the Artifact Codec on its own                                 *)
(***************************************************************************)
MaxCodecBeat == 11
MaxCodecCount == 12
CodecBeats == (1..MaxCodecBeat) \cup {T0, 1000 * T0 + 7}
CodecHosts ==
    {LocalHost, PeerHost, <<"P", "C", "1">>, <<"1", "-", "p", "c">>, <<"p", "c", "-", "2">>,
     <<"-">>, <<"9">>}
CodecLocals == {LocalHost, <<"1", "-", "p", "c">>}
CodecKinds ==
    {<<"Text", None>>, <<"Image", None>>} \cup {<<"Files", Some(n)>> : n \in 1..MaxCodecCount}
CodecFilters == {None, Some("Myself"), Some("Others")}
\* the artifact itself, or a file or a file in a directory below it
CodecChildren == {<<>>, <<"a">>, <<"d", "/", "a">>}

\* the name the writer forms: write_clipboard_to_file, format!(..)
FormedName(beat, hostname, kind, count) ==
    CASE kind = "Text" -> TextFileName(beat, hostname)
      [] kind = "Image" -> ImageFileName(beat, hostname)
      [] kind = "Files" -> FilesFolderName(beat, hostname, Unwrap(count))

CodecEncode ==
    /\ call.op = "input"
    /\ call' = [call EXCEPT !.op = "encode",
                            !.name = Some(FormedName(call.beat, call.host, call.kind, call.count))]
    /\ UNCHANGED <<now, clip, disk, state, queue, os, ev, hist, budget>>
CodecDecode ==
    /\ call.op = "encode"
    /\ call' = [call EXCEPT !.op = "decode",
                            !.parsed = Some(parse_clipboard_filename(
                                SyncPath("sync", Unwrap(call.name), call.child),
                                "sync", call.local, call.filter))]
    /\ UNCHANGED <<now, clip, disk, state, queue, os, ev, hist, budget>>

CodecInit ==
    /\ now = T0
    /\ clip = EmptyClipboard
    /\ disk = [r \in {"sync"} |-> NoEntries]
    /\ state = InitAppState(DefaultConfig, LocalHost)
    /\ queue = <<>>
    /\ os = [is_dir |-> [r \in {"sync"} |-> TRUE], child |-> "none", tooltip |-> "",
             started |-> FALSE, exited |-> FALSE, live |-> 0]
    /\ ev = Quiet("env")
    /\ hist = NoHistory
    /\ budget = 0
    /\ \E beat \in CodecBeats, host \in CodecHosts, kc \in CodecKinds, local \in CodecLocals,
          filter \in CodecFilters, child \in CodecChildren :
            call = CodecCall("input", beat, host, kc[1], kc[2], local, filter, child, None, None)
CodecNext == CodecEncode \/ CodecDecode
SpecCodec == CodecInit /\ [][CodecNext]_vars

(***************************************************************************)
(* SpecSweep: the retention sweep over a folder that holds old entries      *)
(***************************************************************************)
MaxSweepInputs == 3
MaxSweepEntries == 4
ThirdHost == <<"p", "c", "3">>
\* a marker whose name also matches a legacy pattern, and a legacy file
LegacyMarker == <<"r", "e", "c", "e", "i", "v", "i", "n", "g", "-">> \o KeepAliveName(ThirdHost)
LegacyFile == <<"r", "e", "c", "e", "i", "v", "i", "n", "g", "-", "p", "c", "3", ".", "t", "x", "t">>
SweepEntry(name, isDir, age, author) ==
    [name |-> name,
     entry |-> IF isDir THEN DirEntry(T0 - age, author, NoEntries)
               ELSE FileEntry(T0 - age, author, <<"raw">>)]
\* what earlier runs left in the folder: artifacts of this host and of a
\* peer at, one below and a minute below the thresholds, markers, legacy files
SweepCandidates ==
    {SweepEntry(TextFileName(1, LocalHost), FALSE, 300000, "me"),
     SweepEntry(ImageFileName(2, LocalHost), FALSE, 299999, "me"),
     SweepEntry(FilesFolderName(3, LocalHost, 2), TRUE, 240000, "me"),
     SweepEntry(TextFileName(4, LocalHost), FALSE, 239999, "me"),
     SweepEntry(TextFileName(5, PeerHost), FALSE, 600000, "peer"),
     SweepEntry(FilesFolderName(6, PeerHost, 1), TRUE, 599999, "peer"),
     SweepEntry(ImageFileName(7, PeerHost), FALSE, 540000, "peer"),
     SweepEntry(TextFileName(8, PeerHost), FALSE, 539999, "peer"),
     SweepEntry(KeepAliveName(PeerHost), FALSE, 700000, "peer"),
     SweepEntry(KeepAliveName(LocalHost), FALSE, 700000, "me"),
     SweepEntry(LegacyMarker, FALSE, 700000, "peer"),
     SweepEntry(LegacyFile, FALSE, 0, "peer")}
EntriesOf(S) == [n \in {x.name : x \in S} |-> (CHOOSE x \in S : x.name = n).entry]
SweepInit ==
    \E S \in SUBSET SweepCandidates :
        /\ Cardinality(S) <= MaxSweepEntries
        /\ InitWith(DefaultConfig, LocalHost, EntriesOf(S), MaxSweepInputs)
SweepNext ==
    \/ Start(AllOk)
    \/ \E d \in {59999, 60000} : AdvanceClock(d)
    \/ \E idle \in {Some(0), Some(IDLE_TIMEOUT_SECS)} : Tick(idle, AllOk)
    \/ PeerLeaves
    \/ MenuEvent("Quit", None)
SpecSweep == SweepInit /\ [][SweepNext]_vars

(***************************************************************************)
(* SpecMenu: the configuration, the menu and the reload                     *)
(***************************************************************************)
MaxMenuInputs == 3
SendNothing ==
    [DefaultConfig EXCEPT !.send_texts = FALSE, !.send_images = FALSE, !.send_files = FALSE]
ReceiveNothing ==
    [DefaultConfig EXCEPT !.receive_texts = FALSE, !.receive_images = FALSE,
                          !.receive_files = FALSE]
MenuConfigs ==
    {DefaultConfig, CommandConfig, SendNothing, ReceiveNothing,
     [DefaultConfig EXCEPT !.auto_cleanup = FALSE],
     [DefaultConfig EXCEPT !.folder = None],
     [SendNothing EXCEPT !.receive_texts = FALSE, !.receive_images = FALSE,
                         !.receive_files = FALSE, !.auto_cleanup = FALSE,
                         !.watch_mode = "Polling"]}
\* the entries of the tray menu (ui.rs, MenuAction) with what the dialog of
\* the entry returns
MenuClicks ==
    {<<a, None>> : a \in ToggleActions \cup {"SetWatchModePollingHarder", "OpenFolder",
                                             "SetSyncCommand", "ChangeFolder"}}
    \cup {<<"SetSyncCommand", Some("")>>, <<"SetSyncCommand", Some("cmd")>>,
          <<"ChangeFolder", Some("other")>>}

MenuInit ==
    /\ now = T0
    /\ clip = ClipboardSetText(TextA)
    /\ disk = [r \in LifeFolders |-> IF r = "sync" THEN PeerListening ELSE NoEntries]
    /\ \E config \in MenuConfigs : state = InitAppState(config, LocalHost)
    /\ queue = <<>>
    /\ os = [is_dir |-> [r \in LifeFolders |-> TRUE], child |-> "none", tooltip |-> "",
             started |-> FALSE, exited |-> FALSE, live |-> 0]
    /\ ev = Quiet("env")
    /\ hist = NoHistory
    /\ budget = MaxMenuInputs
    /\ call = NoCall
MenuNext ==
    \/ \E inp \in LifeOutcomes : Start(inp)
    \/ \E click \in MenuClicks : MenuEvent(click[1], click[2])
    \/ MenuEvent("Quit", None)
    \/ \E inp \in LifeOutcomes : DispatchReload(inp)
    \/ \E b \in BOOLEAN : FolderReachable("sync", b)
    \/ \E idle \in IdleTimes : Tick(idle, AllOk)
SpecMenu == MenuInit /\ [][MenuNext]_vars

(***************************************************************************)
(* SpecAlive: the timer of a started receiver.  Time passes only between    *)
(* two firings of the timer (main.rs line 263 arms it again after every     *)
(* event), by one second or by a longer wait of the dispatcher.             *)
(***************************************************************************)
MaxAliveInputs == 5
\* the timer interval, and a wait one second short of the keep-alive interval
AliveSteps == {1000, KEEP_ALIVE_INTERVAL_SECS * 1000 - 1000}
AliveConfigs == {DefaultConfig, ReceiveNothing}

\* StartCause::ResumeTimeReached, d ms after the last event
TimerFires(d, idle) ==
    /\ os.started /\ ~os.exited
    /\ budget > 0
    /\ Ticked(handle_timer_tick(Machine, now + d, idle, AllOk), idle, AllOk)
    /\ now' = now + d
    /\ budget' = budget - 1
    /\ UNCHANGED <<clip, queue, call>>

AliveInit ==
    /\ now = T0
    /\ clip = ClipboardSetText(TextA)
    /\ disk = [r \in {"sync"} |-> PeerListening]
    /\ \E config \in AliveConfigs : state = InitAppState(config, LocalHost)
    /\ queue = <<>>
    /\ os = [is_dir |-> [r \in {"sync"} |-> TRUE], child |-> "none", tooltip |-> "",
             started |-> FALSE, exited |-> FALSE, live |-> 0]
    /\ ev = Quiet("env")
    /\ hist = NoHistory
    /\ budget = MaxAliveInputs
    /\ call = NoCall
AliveNext ==
    \/ Start(AllOk)
    \/ \E d \in AliveSteps, idle \in IdleTimes : TimerFires(d, idle)
    \/ \E b \in BOOLEAN : FolderReachable("sync", b)
SpecAlive == AliveInit /\ [][AliveNext]_vars

(***************************************************************************)
(* SpecWait: a sync command is configured, the folder comes and goes, the   *)
(* command may exit, and the timer keeps ticking                            *)
(***************************************************************************)
MaxWaitInputs == 5
\* a tick at which the folder check is due
WaitSteps == {30000}
WaitTick == \E d \in WaitSteps : TimerFires(d, Some(0))
WaitInit ==
    /\ now = T0
    /\ clip = ClipboardSetText(TextA)
    /\ disk = [r \in {"sync"} |-> PeerListening]
    /\ state = InitAppState(CommandConfig, LocalHost)
    /\ queue = <<>>
    /\ os = [is_dir |-> [r \in {"sync"} |-> TRUE], child |-> "none", tooltip |-> "",
             started |-> FALSE, exited |-> FALSE, live |-> 0]
    /\ ev = Quiet("env")
    /\ hist = NoHistory
    /\ budget = MaxWaitInputs
    /\ call = NoCall
WaitNext ==
    \/ Start(AllOk)
    \/ WaitTick
    \/ \E b \in BOOLEAN : FolderReachable("sync", b)
    \/ CommandExits
\* the event loop arms the timer again after every event (main.rs line
\* 263): a step that advances the clock to the next tick.  In SpecWait the
\* steps that advance the clock are the WaitTick steps, so this is the
\* fairness of the ticks.
WaitTimer ==
    /\ os.started /\ ~os.exited
    /\ budget > 0
    /\ \E d \in WaitSteps : now' = now + d
    /\ budget' = budget - 1
SpecWait == WaitInit /\ [][WaitNext]_vars /\ WF_<<now, budget>>(WaitTimer)

(***************************************************************************)
(* SpecStopped: events are queued, then the orchestrator is suspended and   *)
(* resumed by the idle check                                                *)
(***************************************************************************)
MaxStoppedInputs == 4
StoppedArtifacts == {PeerText(T0 - 5000, TextB)}
StoppedIdleTimes == {Some(0), Some(IDLE_TIMEOUT_SECS)}
StoppedInit == InitWith(DefaultConfig, LocalHost, PeerListening, MaxStoppedInputs)
StoppedNext ==
    \/ Start(AllOk)
    \/ UserCopy(ClipboardSetText(TextA))
    \/ \E a \in StoppedArtifacts : PeerPut(a)
    \/ \E path \in WatchedPaths(disk, "sync") : FsNotify(path)
    \/ \E idle \in StoppedIdleTimes : Tick(idle, AllOk)
    \/ DispatchClipboardChanged
    \/ DispatchClipboardFileDetected
SpecStopped == StoppedInit /\ [][StoppedNext]_vars

(***************************************************************************)
(* Properties                                                               *)
(***************************************************************************)
\* the dedup fields of the AppState
DedupState(st) ==
    <<st.last_beat, st.last_text_written, st.last_text_read,
      st.last_image_sha256_written, st.last_image_sha256_read, st.last_file_paths_read>>

WriterInvoked(e) == e.op = "clipboard_changed" /\ e.invoked
ReaderInvoked(e) == e.op = "file_detected" /\ e.invoked

\* the presence markers of other hosts in the sync folder that are not older
\* than the staleness threshold at time t
FreshPeerMarkers(d, t) ==
    {n \in DOMAIN d["sync"] :
        /\ EndsWith(n, IS_RECEIVING_FILE_SUFFIX)
        /\ n /= LocalHost \o IS_RECEIVING_FILE_SUFFIX
        /\ t - d["sync"][n].mtime <= STALE_THRESHOLD_SECS * 1000}

\* C1: whenever the Sync Writer is invoked and the sync folder holds no
\* marker of another host modified within the staleness threshold (the
\* host's own marker never counts), the writer returns false, does not read
\* the clipboard, creates no artifact and changes no dedup field.
C1_WriterAbortsWithoutPeers ==
    [][(WriterInvoked(ev') /\ FreshPeerMarkers(disk, now') = {})
        => /\ ~ev'.ret
           /\ ~ev'.clipRead
           /\ disk' = disk
           /\ DedupState(state') = DedupState(state)]_vars

\* C1 witness: the writer was invoked on a clipboard holding a text while
\* the host's own marker was fresh and the peer's marker stale, and aborted
C1_Witness ==
    /\ WriterInvoked(ev) /\ ~ev.ret /\ ~ev.clipRead
    /\ clip = ClipboardSetText(TextA)
    /\ state.config.send_texts
    /\ KeepAliveName(LocalHost) \in DOMAIN disk["sync"]
    /\ now - disk["sync"][KeepAliveName(LocalHost)].mtime < STALE_THRESHOLD_SECS * 1000
    /\ KeepAliveName(PeerHost) \in DOMAIN disk["sync"]
    /\ FreshPeerMarkers(disk, now) = {}

\* the artifacts in the sync folder that this host wrote
OwnArtifacts(d) ==
    {n \in DOMAIN d["sync"] : d["sync"][n].author = "me" /\ ~EndsWith(n, IS_RECEIVING_FILE_SUFFIX)}

\* the clipboard value c of kind k was written as an artifact less than the
\* duplicate window before time t, and nothing of that kind was written since
WrittenWithin(h, k, c, t) ==
    /\ KindOf(c) = k
    /\ IsSome(h.wrote[k])
    /\ Unwrap(h.wrote[k]).clip = c
    /\ t - Unwrap(h.wrote[k]).at < DUPLICATE_WINDOW_MS

C4_DedupIdempotentFiles ==
    [][(WriterInvoked(ev') /\ WrittenWithin(hist, "Files", clip, now'))
        => (~ev'.ret /\ disk' = disk)]_vars

\* the beat in the name of an artifact
BeatOf(name) == ParseDecimal(Unwrap(FILE_NAME_REGEX(name)).g1)
SetMax(S) == CHOOSE x \in S : \A y \in S : y <= x
\* the flashed icon, which is the received (or sent) signal
Signal(st) == <<st.current_icon, st.icon_revert_time>>

\* C6: once an artifact with beat b was applied, a later Sync Reader
\* invocation on an artifact with a lower beat returns false and changes
\* neither the clipboard nor the dedup state.
C6_BeatOrdering ==
    [][(ReaderInvoked(ev') /\ hist.beats /= {} /\ BeatOf(ev'.path.name) < SetMax(hist.beats))
        => (~ev'.ret /\ clip' = clip /\ DedupState(state') = DedupState(state))]_vars

\* C7: after a peer artifact with beat b1 was applied and nothing was
\* written locally since, a well-formed peer artifact with other content and
\* a beat b2 > b1 is applied when the clipboard can be opened and set.
C7_NewerArtifactApplied ==
    [][(/\ ReaderInvoked(ev') /\ ev'.ok
        /\ IsSome(hist.applied)
        /\ ~Unwrap(hist.applied).wroteSince
        /\ clip = Unwrap(hist.applied).clip
        /\ BeatOf(ev'.path.name) > Unwrap(hist.applied).beat
        /\ disk["sync"][ev'.path.name].body[1] \in {"json", "png"}
        /\ disk["sync"][ev'.path.name].body /= Unwrap(hist.applied).entry.body)
        => (ev'.ret /\ ev'.clipSet)]_vars

\* C8: for a Files artifact holding another number of files than its name
\* encodes, the Sync Reader returns false and changes neither the clipboard
\* nor the dedup state.
C8_PartialNeverApplied ==
    [][(ReaderInvoked(ev') /\ Incomplete(disk, ev'.path.name))
        => (~ev'.ret /\ ~ev'.clipSet /\ clip' = clip
            /\ DedupState(state') = DedupState(state))]_vars

\* C8 witness: a read of a Files artifact with one of its two files present
\* was aborted, and after the second file arrived the artifact was applied
C8_Witness ==
    /\ ReaderInvoked(ev) /\ ev.ret /\ ev.clipSet
    /\ IsFilesArtifact(ev.path.name)
    /\ FilesPresent(disk, ev.path.name) = 2
    /\ IsSome(clip.files) /\ Len(Unwrap(clip.files)) = 2
    /\ disk["sync"][ev.path.name].mtime < now - FILE_DETECTED_DELAY_MS

\* C9: when the timer ticks while a Files artifact whose read was aborted
\* as incomplete has become complete and no event for it is queued, the read
\* is retried: the artifact is applied or an event for it is posted.
C9_RetriedOnTimerTick ==
    [][(ev'.op = "timer_tick"
        /\ \E name \in hist.partial :
            /\ name \in DOMAIN disk["sync"]
            /\ ~Incomplete(disk, name)
            /\ \A i \in 1..Len(queue) : queue[i].path.name /= name)
        => \E name \in hist.partial :
            \/ (IsSome(hist'.applied) /\ Unwrap(hist'.applied).path.name = name)
            \/ \E i \in 1..Len(queue') : queue'[i].path.name = name]_vars

\* C10: a second filesystem event for the artifact that was applied last,
\* handled while the artifact is unchanged and the clipboard still holds its
\* content, does not set the clipboard, raises no received signal and leaves
\* the dedup state unchanged.
C10_RedeliveryNoOp ==
    [][(/\ ReaderInvoked(ev')
        /\ IsSome(hist.applied)
        /\ ev'.path = Unwrap(hist.applied).path
        /\ clip = Unwrap(hist.applied).clip
        /\ disk["sync"][ev'.path.name] = Unwrap(hist.applied).entry)
        => (/\ ~ev'.ret /\ ~ev'.clipSet /\ clip' = clip
            /\ Signal(state') = Signal(state)
            /\ DedupState(state') = DedupState(state))]_vars

\* C10 witness: the reader ran a second time on the artifact it applied,
\* whose beat is not below the recorded last beat, and did nothing
C10_Witness ==
    /\ ReaderInvoked(ev) /\ ~ev.ret /\ ev.clipRead
    /\ IsSome(hist.applied)
    /\ ev.path = Unwrap(hist.applied).path
    /\ clip = Unwrap(hist.applied).clip
    /\ now > Unwrap(hist.applied).at
    /\ Unwrap(hist.applied).beat >= Unwrap(state.last_beat)

HostOf(name) == Unwrap(FILE_NAME_REGEX(name)).g2

\* C5: the Sync Reader is invoked only on artifacts whose hostname differs
\* from the local hostname and which this host did not write, so the
\* clipboard is never set from an artifact of this host.
C5_NeverReceivesOwn ==
    [][ReaderInvoked(ev')
        => (/\ HostOf(ev'.path.name) /= state.hostname
            /\ ev'.path.name \in DOMAIN disk["sync"]
                    => disk["sync"][ev'.path.name].author /= "me")]_vars

\* C5 witness: the fs watcher reported an artifact this host wrote and no
\* event was posted for it
C5_Witness ==
    /\ ev.op = "fs_event"
    /\ ev.path.name \in OwnArtifacts(disk)
    /\ HostOf(ev.path.name) = state.hostname
    /\ queue = <<>>

\* the configured sync folder cannot be enumerated
FolderUnreadable(st, o) == IsSome(st.sync_folder) /\ ~o.is_dir[Unwrap(st.sync_folder)]

\* C11: when the sync folder cannot be enumerated, the presence check
\* reports that someone is listening, so a Sync Writer invoked then gets past
\* the presence step and reads the clipboard.
C11_PresenceFailsOpen ==
    [][(WriterInvoked(ev') /\ FolderUnreadable(state, os)) => ev'.clipRead]_vars

\* the descriptor the codec owes for the inputs of call c: none when a filter
\* asks for the other origin, else the beat, the kind, the file count, the
\* origin by the hostname and the path of the artifact itself
Expected(c) ==
    LET origin == IF c.host = c.local THEN "Myself" ELSE "Others"
    IN  IF IsSome(c.filter) /\ Unwrap(c.filter) /= origin THEN None
        ELSE Some([path |-> SyncPath("sync", Unwrap(c.name), <<>>), beat |-> c.beat,
                   content_type |-> c.kind, origin |-> origin, files_count |-> c.count])

\* C12: decoding the name the writer forms for a beat >= 1, a hostname of
\* [0-9a-zA-Z-]+ and a kind (Text, Image, Files of n >= 1 files) yields the
\* same beat, kind and file count, with origin Myself exactly when the
\* hostname is the local one; a path nested below the artifact decodes to the
\* descriptor of the artifact.  With an origin filter the descriptor is
\* returned exactly when the origin is the one asked for.
C12_CodecRoundTrip == call.op = "decode" => Unwrap(call.parsed) = Expected(call)

\* C12 witness: a path nested two levels below the _files artifact that the
\* local host, whose name starts with a digit and holds a hyphen, formed for
\* 10 files was decoded to the descriptor of that artifact, origin Myself
C12_Witness ==
    /\ call.op = "decode"
    /\ call.kind = "Files" /\ call.count = Some(10)
    /\ call.host = <<"1", "-", "p", "c">> /\ call.local = call.host
    /\ call.child = <<"d", "/", "a">>
    /\ call.filter = None
    /\ IsSome(Unwrap(call.parsed))
    /\ Unwrap(Unwrap(call.parsed)).origin = "Myself"
    /\ Unwrap(Unwrap(call.parsed)).files_count = Some(10)

\* the handler of report e made the call c
Did(e, c) == \E i \in 1..Len(e.calls) : e.calls[i] = c

\* the retention of the spec for an artifact of the given origin, in ms
Retention(origin) == IF origin = "Myself" THEN 5 * 60 * 1000 ELSE 10 * 60 * 1000
\* the origin the name n carries for this host
OriginOf(n) == IF HostOf(n) = LocalHost THEN "Myself" ELSE "Others"
Artifacts(entries) == {n \in DOMAIN entries : IsSome(FILE_NAME_REGEX(n))}
Markers(entries) == {n \in DOMAIN entries : EndsWith(n, IS_RECEIVING_FILE_SUFFIX)}

\* C13: a sweep pass deletes an artifact of this host iff its age (now minus
\* modification time) is at least 5 minutes and an artifact of another host
\* iff its age is at least 10 minutes: exactly at the threshold it is
\* deleted, one millisecond below it is retained.
C13_RetentionThresholds ==
    [][(Did(ev', "clean") /\ IsSome(state'.sync_folder)
            /\ os.is_dir[Unwrap(state'.sync_folder)])
        => \A n \in Artifacts(disk[Unwrap(state'.sync_folder)]) :
              (n \notin DOMAIN disk'[Unwrap(state'.sync_folder)])
              <=> (now' - disk[Unwrap(state'.sync_folder)][n].mtime >= Retention(OriginOf(n)))]_vars

\* C13 witness: one sweep pass deleted the own artifact aged 300000 ms and
\* the peer artifact aged 600000 ms and kept the own artifact aged 299999 ms
\* and the peer artifact aged 599999 ms
C13_Witness ==
    /\ Did(ev, "clean")
    /\ now = T0
    /\ <<"sync", TextFileName(1, LocalHost)>> \in ev.removed
    /\ <<"sync", TextFileName(5, PeerHost)>> \in ev.removed
    /\ ImageFileName(2, LocalHost) \in DOMAIN disk["sync"]
    /\ now - disk["sync"][ImageFileName(2, LocalHost)].mtime = 299999
    /\ FilesFolderName(6, PeerHost, 1) \in DOMAIN disk["sync"]
    /\ now - disk["sync"][FilesFolderName(6, PeerHost, 1)].mtime = 599999

\* C14: a presence marker (a name ending in .is-receiving.txt), of this host
\* or of another, leaves the folder only through its owner's uninitialize:
\* this host's in a step that runs uninitialize, a peer's when the peer shuts
\* down; a sweep pass deletes none, whatever its age and even when its name
\* matches a legacy pattern.
C14_SweepKeepsMarkers ==
    [][\A f \in DOMAIN disk : \A n \in Markers(disk[f]) :
          (n \notin DOMAIN disk'[f])
          => \/ n = KeepAliveName(LocalHost) /\ Did(ev', "uninitialize")
             \/ n = KeepAliveName(PeerHost) /\ ev'.op = "env" /\ ev'.calls = <<>>]_vars

\* C14 witness: a sweep pass ran, and deleted a legacy file, over a folder
\* holding the marker of a peer and a marker named after a legacy pattern,
\* both 700000 ms old, and both are still there
C14_Witness ==
    /\ Did(ev, "clean")
    /\ ~Did(ev, "uninitialize")
    /\ <<"sync", LegacyFile>> \in ev.removed
    /\ {KeepAliveName(PeerHost), LegacyMarker} \subseteq DOMAIN disk["sync"]
    /\ now - disk["sync"][LegacyMarker].mtime >= 700000
    /\ now - disk["sync"][KeepAliveName(PeerHost)].mtime >= 700000

\* the last call of a handler's calls that starts or ends a cycle
LastLife(calls) == SelectSeq(calls, IsLifeCall)[Len(SelectSeq(calls, IsLifeCall))]
\* the folders that can be reached and hold a marker this host wrote
MarkedFolders(d, o) ==
    {f \in DOMAIN d : o.is_dir[f] /\ KeepAliveName(LocalHost) \in DOMAIN d[f]
                                  /\ d[f][KeepAliveName(LocalHost)].author = "me"}
\* what uninitialize leaves: no watcher, no command, not initialized
ShutDown(st, o) ==
    /\ ~IsSome(st.clipboard_watcher_shutdown)
    /\ ~IsSome(st.fs_watcher)
    /\ ~IsSome(st.sync_command.child)
    /\ o.child /= "running"
    /\ ~st.initialized

\* C15: after uninitialize, whatever its reason, no watcher is active, the
\* external command is not running, initialized is false, and the marker of
\* this host is gone from every reachable folder it was written to (unless
\* an initialize that followed in the same handler wrote it to that folder
\* again), also when the reload follows a change of the sync folder.
C15_UninitializeStopsAll ==
    [][Did(ev', "uninitialize")
        => /\ (LastLife(ev'.calls) \in Reasons => ShutDown(state', os'))
           /\ \A f \in MarkedFolders(disk, os) :
                 \/ KeepAliveName(LocalHost) \notin DOMAIN disk'[f]
                 \/ LastLife(ev'.calls) = "initialize" /\ state'.sync_folder = Some(f)]_vars

\* uninitialize(r1) and then uninitialize(r2) on machine m: the second call
\* stops nothing and leaves the state, the folders and the command as the
\* first call left them (the tooltip shows the reason of the last call)
SecondIsNoOp(m1, m2) ==
    /\ m2.state = m1.state
    /\ m2.disk = m1.disk
    /\ [m2.os EXCEPT !.tooltip = ""] = [m1.os EXCEPT !.tooltip = ""]
    /\ \A i \in 1..Len(m2.calls) : m2.calls[i] /= "kill"
UninitializedTwice(m, r1, r2) ==
    SecondIsNoOp(uninitialize(m, r1), uninitialize([uninitialize(m, r1) EXCEPT !.calls = <<>>], r2))

IdleTick(e) == e.op = "timer_tick" /\ IsSome(e.idle) /\ Unwrap(e.idle) >= 30
\* the tick suspended for idleness: uninitialize(idle) ran, the flag is set,
\* the orchestrator is not Running
IdleSuspended(e, st) == Did(e, "System is idle") /\ st.suspended_by_idle /\ ~st.initialized
\* the machine the idle check of a tick at time t meets
AtIdleCheck(m, t, inp) == TickFolderCheck(TickCommandHealth(TickRevertIcon(m, t)), t, inp)

ActiveTick(e) == e.op = "timer_tick" /\ IsSome(e.idle) /\ Unwrap(e.idle) < 30
\* the idle check of the tick resumed: it invoked initialize
ResumedByIdleCheck(e) == Did(e, "log: System is no longer idle")
\* the reasons, shown in the tooltip, of a suspension that idleness did not
\* cause: the folder is unavailable, no folder is set, the command failed
OtherCauses ==
    {"Folder unavailable", "Waiting for folder...", "Please set a sync folder",
     "Sync command failed"}
SuspendedByOtherCause(m) == ~m.state.initialized /\ m.os.tooltip \in OtherCauses

\* C18: when the idle time is below the threshold, the idle check invokes
\* initialize iff the idle-origin flag is set, and clears the flag; and it
\* never resumes a suspension caused by an unavailable folder, a missing
\* folder setting or a failed command.
C18_IdleResumesOnlyIdleSuspension ==
    [][ActiveTick(ev')
        => /\ ResumedByIdleCheck(ev')
                <=> AtIdleCheck(Machine, now, ev'.inp).state.suspended_by_idle
           /\ ~state'.suspended_by_idle
           /\ SuspendedByOtherCause(AtIdleCheck(Machine, now, ev'.inp))
                => ~ResumedByIdleCheck(ev')]_vars

\* the poll of the Process Supervisor will report that the command exited
\* on its own: a child is held and it has exited
CommandExited(st, o) == IsSome(st.sync_command.child) /\ o.child = "exited"

\* C19: on a tick in which the poll of the Process Supervisor reports that
\* the external command exited on its own, a failure notification is raised
\* and uninitialize(command-failed) is performed; when the tick finishes the
\* orchestrator is not Running and is Suspended with the reason
\* command-failed in the tooltip.
C19_CommandFailureSuspends ==
    [][(ev'.op = "timer_tick" /\ CommandExited(state, os))
        => /\ Did(ev', "notify: Sync command failed")
           /\ Did(ev', "Sync command failed")
           /\ ~state'.initialized
           /\ os'.tooltip = "Sync command failed"]_vars

\* the subsystems whose construction succeeded in the cycle with outcomes
\* inp are started: the command, the clipboard watcher, the fs watcher
OthersStarted(st, o, inp) ==
    /\ (inp.spawn_ok /\ st.config.sync_command /= "") => o.child = "running"
    /\ (inp.clipboard_watcher_ok /\ is_sending_anything(st.config))
            => IsSome(st.clipboard_watcher_shutdown)
    /\ (inp.fs_watcher_ok /\ is_receiving_anything(st.config)) => IsSome(st.fs_watcher)

\* C20: in an initialize cycle over a reachable sync folder, when the
\* clipboard watcher or the fs watcher cannot be constructed or the command
\* cannot be spawned, the other subsystems are still started and the
\* orchestrator still becomes Running.
C20_FailuresIsolated ==
    [][(ev'.op = "start" /\ IsSome(state'.sync_folder) /\ os.is_dir[Unwrap(state'.sync_folder)])
        => (state'.initialized /\ OthersStarted(state', os', ev'.inp))]_vars

\* the calls of the last initialize of a handler: those after the last
\* "initialize" of its calls
LastInitAt(calls) ==
    CHOOSE i \in 1..Len(calls) :
        calls[i] = "initialize" /\ \A j \in (i + 1)..Len(calls) : calls[j] /= "initialize"
InitCalls(calls) == SubSeq(calls, LastInitAt(calls) + 1, Len(calls))
Count(calls, c) == Cardinality({i \in 1..Len(calls) : calls[i] = c})
\* the handler of report e ended with an initialize
EndedWithInitialize(e) == Did(e, "initialize") /\ LastLife(e.calls) = "initialize"
\* the sync folder is set and can be reached
FolderReady(st, o) == IsSome(st.sync_folder) /\ o.is_dir[Unwrap(st.sync_folder)]
\* the initialize of report e was invoked on an orchestrator that was Running:
\* the resume of the idle check, which does not look at initialized
InitializedTwice(e, m, t) ==
    e.op = "timer_tick" /\ ResumedByIdleCheck(e) /\ AtIdleCheck(m, t, e.inp).state.initialized
\* what an initialize over an unset or unreachable folder leaves
NothingStarted(e, st) ==
    /\ ~IsSome(st.clipboard_watcher_shutdown)
    /\ ~IsSome(st.fs_watcher)
    /\ Count(InitCalls(e.calls), "keep_alive") = 0
    /\ ~st.initialized

CandidateOf(ctx, config) == ProbeClipboard(ctx, config)

\* the step is a writer invocation that got past the duplicate check
\* (clipboard.rs line 350): a peer listens, the clipboard opened, a
\* candidate of an enabled kind was built and was not skipped
PassedDedup(e, st, fs, ctx, beat) ==
    /\ WriterInvoked(e) /\ e.clipRead /\ e.io.ctx_ok
    /\ IsSome(CandidateOf(ctx, st.config))
    /\ ~WriterSkips(Unwrap(CandidateOf(ctx, st.config)), IsRecent(st.last_beat, beat), st, fs)

\* the last-written snapshots the AppState holds, by kind (main.rs lines
\* 66-71): the text, the image hash; there is no field for a file set
LastWritten(st) ==
    [Text |-> st.last_text_written, Image |-> st.last_image_sha256_written,
     Files |-> None]

\* what the writer sent, as a snapshot of the candidate c would hold it
SnapshotOf(c) ==
    CASE c.content_type = "Text" -> Some(c.clipboard_text)
      [] c.content_type = "Image" -> c.clipboard_image_sha256
      [] c.content_type = "Files" -> c.clipboard_file_paths

\* C22: once a write got past the duplicate check, the last beat is the
\* beat of this invocation whether or not the artifact was written; a
\* failing write makes the writer return false and leaves the last-written
\* snapshots as they were; a successful one makes the snapshot of the
\* candidate's kind the written content.
C22_BeatAdvancesOnWrite ==
    [][PassedDedup(ev', state, Reachable(Machine), clip, now')
        => /\ state'.last_beat = Some(now')
           /\ (~ev'.io.write_ok => ~ev'.ret)
           /\ (~ev'.ret => LastWritten(state') = LastWritten(state))
           /\ (ev'.ret =>
                LastWritten(state')[Unwrap(CandidateOf(clip, state.config)).content_type]
                    = SnapshotOf(Unwrap(CandidateOf(clip, state.config))))]_vars


\* the step is a writer invocation that reached the write of a Files
\* candidate
FilesWrite(e, st, fs, ctx, beat) ==
    /\ PassedDedup(e, st, fs, ctx, beat)
    /\ Unwrap(CandidateOf(ctx, st.config)).content_type = "Files"
\* the artifacts the step created in the sync folder
Created(d, d2) == DOMAIN d2["sync"] \ DOMAIN d["sync"]
\* the names the entries of the file list are copied under
ChildNames(files) == {files[i].child : i \in 1..Len(files)}

\* C23: a Files write in which the copy of any entry fails returns false;
\* when it returns true the artifact directory holds every entry of the
\* file list and the number of files in it is the count its name encodes.
C23_FilesWriteAllOrNothing ==
    [][FilesWrite(ev', state, Reachable(Machine), clip, now')
        => /\ (ev'.io.failing /= {} => ~ev'.ret)
           /\ (ev'.ret =>
                \A n \in Created(disk, disk') :
                    /\ DOMAIN disk'["sync"][n].body[2] = ChildNames(Unwrap(clip.files))
                    /\ ~Incomplete(disk', n))]_vars


\* the supervisor held a running child when the step began and the step
\* neither killed it nor saw it exit
ChildKept(e, st, o) ==
    IsSome(st.sync_command.child) /\ o.child = "running" /\ ~Did(e, "kill")

\* C24: a start of the Process Supervisor while a child is held, or with an
\* empty command line, spawns nothing and leaves the handle and the time of
\* the last spawn as they were; at most one supervised child is alive at
\* any time, whatever the initialize calls made.
C24_StartSpawnsOnce ==
    [][/\ os'.live <= 1
       /\ (Did(ev', "initialize") /\ state'.config.sync_command = "") => ~Did(ev', "spawn")
       /\ (Did(ev', "initialize") /\ ChildKept(ev', state, os))
            => /\ ~Did(ev', "spawn")
               /\ state'.sync_command = state.sync_command
               /\ state'.sync_command_started_at \in {state.sync_command_started_at, None}]_vars

\* C24 witness: a tick's folder check ran initialize while the command
\* spawned at start was still held; nothing was spawned, one child lives
C24_Witness ==
    /\ ev.op = "timer_tick" /\ Did(ev, "initialize")
    /\ ~Did(ev, "spawn") /\ ~Did(ev, "kill")
    /\ state.config.sync_command /= ""
    /\ IsSome(state.sync_command.child) /\ os.child = "running" /\ os.live = 1


\* the handler of report e got an exit status from the supervisor's check
Reported(e) == Did(e, "notify: Sync command failed")
\* the handler of report e killed a child it had not spawned itself
KilledHeld(e) ==
    \E i \in 1..Len(e.calls) :
        e.calls[i] = "kill" /\ \A j \in 1..(i - 1) : e.calls[j] /= "spawn"
\* the last stop of the handler of report e came after its last start
StoppedLast(e) ==
    \E i \in 1..Len(e.calls) :
        e.calls[i] = "uninitialize" /\ \A j \in (i + 1)..Len(e.calls) : e.calls[j] /= "initialize"

\* C25: the check of the Process Supervisor returns an exit status exactly
\* when a child is held and has exited, and clears the handle when it does,
\* so that a child is reported at most once (the stop that follows finds no
\* child to kill); stop without a child kills nothing, and after a stop the
\* handle is absent and no terminated child is left for check to report.
C25_CheckReportsOnce ==
    [][/\ ev'.op = "timer_tick"
            => (Reported(ev') <=> (IsSome(state.sync_command.child) /\ os.child = "exited"))
       /\ Reported(ev') => ~KilledHeld(ev')
       /\ ~IsSome(state.sync_command.child) => ~KilledHeld(ev')
       /\ StoppedLast(ev')
            => (~IsSome(state'.sync_command.child) /\ os'.child = "none" /\ os'.live = 0)]_vars

\* C25 witness: a tick found the exit of the command and reported it, the
\* uninitialize that followed killed nothing and left the handle absent
C25_Witness ==
    /\ ev.op = "timer_tick" /\ Reported(ev)
    /\ ~Did(ev, "kill") /\ StoppedLast(ev)
    /\ ~IsSome(state.sync_command.child) /\ os.child = "none"
    /\ Count(hist.life, "Sync command failed") = 1


\* the menu entries that change the configuration when picked (ui.rs lines
\* 8-27); the two dialogs change it when they are not cancelled
ConfigActions == ToggleActions \cup {"SetWatchModePollingHarder"}
ConfigChanged(e, st, st2) ==
    /\ e.op = "menu"
    /\ \/ e.action \in ConfigActions
       \/ (e.action \in {"SetSyncCommand", "ChangeFolder"} /\ st2.config /= st.config)

\* C26: every menu action that changes the configuration (the six toggles,
\* auto-cleanup, each watch mode, pollingHarder included, the sync command,
\* the folder) saves the configuration and posts a Reload; the handling of
\* a Reload runs uninitialize and then initialize, and nothing else.
C26_ConfigChangeReloads ==
    [][/\ ConfigChanged(ev', state, state')
            => (Did(ev', "save_config") /\ queue' = Append(queue, Reload))
       /\ ev'.op = "reload"
            => SelectSeq(ev'.calls, IsLifeCall) = <<"Reloading...", "initialize">>]_vars


\* the step handles a clipboard-change event on a Running orchestrator
ChangeOnRunning(e, st) ==
    e.op = "clipboard_changed" /\ st.initialized /\ IsSome(st.sync_folder)
\* less than the debounce interval has passed at time t since the last
\* accepted event
WithinDebounce(st, t) ==
    IsSome(st.last_clipboard_event)
        /\ t - Unwrap(st.last_clipboard_event) < CLIPBOARD_DEBOUNCE_MS

\* C27: a clipboard-change event on a Running orchestrator is dropped, the
\* Sync Writer not being invoked, iff less than 500 ms have passed since the
\* last accepted event; a dropped event leaves the reference time as it
\* was, an accepted one makes it the time of the event; any two
\* invocations of the Sync Writer are at least 500 ms apart.
C27_Debounce ==
    [][ChangeOnRunning(ev', state)
        => /\ ~ev'.invoked <=> WithinDebounce(state, now)
           /\ ~ev'.invoked => state'.last_clipboard_event = state.last_clipboard_event
           /\ ev'.invoked => state'.last_clipboard_event = Some(now)
           /\ (ev'.invoked /\ IsSome(hist.invoked))
                => now' - Unwrap(hist.invoked) >= CLIPBOARD_DEBOUNCE_MS]_vars

\* C27 witness: the event that came exactly 500 ms after the last accepted
\* one was accepted, and the writer was invoked 500 ms after its last
\* invocation
C27_Witness ==
    /\ ev.op = "clipboard_changed" /\ ev.invoked
    /\ state.last_clipboard_event = Some(T0 + CLIPBOARD_DEBOUNCE_MS)
    /\ hist.invoked = Some(now)
    /\ now = T0 + CLIPBOARD_DEBOUNCE_MS + CLIPBOARD_WRITE_DELAY_MS


\* the machine the folder check of a tick at time t meets
AtFolderCheck(m, t) == TickCommandHealth(TickRevertIcon(m, t))
\* the interval between two folder checks at time t, in ms: 1 s while less
\* than 15 s have passed since the command was spawned, 30 s otherwise
CurrentInterval(st, t) ==
    IF IsSome(st.sync_command_started_at) /\ t - Unwrap(st.sync_command_started_at) < 15000
    THEN 1000 ELSE 30000
\* no check was performed yet, or the interval has elapsed since the last
CheckDue(st, t) ==
    ~IsSome(st.last_folder_check)
        \/ t - Unwrap(st.last_folder_check) >= CurrentInterval(st, t)
\* what a performed check does to the orchestrator it meets in pre
CheckTransitions(pre, e) ==
    IsSome(pre.state.sync_folder)
        => /\ (~pre.state.initialized /\ pre.os.is_dir[Unwrap(pre.state.sync_folder)])
                => Did(e, "initialize")
           /\ (pre.state.initialized /\ ~pre.os.is_dir[Unwrap(pre.state.sync_folder)])
                => Did(e, "Folder unavailable")
\* what a tick that performs no check leaves alone
NoCheck(e, st, st2) ==
    /\ st2.last_folder_check = st.last_folder_check
    /\ ~Did(e, "Folder unavailable")
    /\ Did(e, "initialize") => ResumedByIdleCheck(e)

\* C28: a tick performs the folder check iff none was performed yet or the
\* current interval (1 s while less than 15 s have passed since the command
\* was spawned, else 30 s) has elapsed since the last one; a performed check
\* over a configured folder initializes an orchestrator that is not Running
\* and whose folder is accessible, and uninitializes with reason "Folder
\* unavailable" a Running one whose folder is not.
C28_FolderCheckCadence ==
    [][ev'.op = "timer_tick"
        => IF CheckDue(AtFolderCheck(Machine, now).state, now)
           THEN /\ state'.last_folder_check = Some(now)
                /\ CheckTransitions(AtFolderCheck(Machine, now), ev')
           ELSE NoCheck(ev', state, state')]_vars

\* C28 witness: one second after a check made less than 15 s after the
\* spawn, a tick checked again, found the folder gone and uninitialized
C28_Witness ==
    /\ ev.op = "timer_tick" /\ Did(ev, "Folder unavailable")
    /\ state.last_folder_check = Some(now)
    /\ IsSome(state.sync_command_started_at)
    /\ now - Unwrap(state.sync_command_started_at) < 15000
    /\ now = T0 + 1000
    /\ ~state.initialized


\* the machine the maintenance of a tick at time t meets
AtMaintenance(m, t, idle, inp) == check_idle_state(AtIdleCheck(m, t, inp), t, idle, inp)
\* a receive capability is enabled and the marker was never written or was
\* last written 4 minutes ago or more
KeepAliveDue(st, t) ==
    /\ is_receiving_anything(st.config)
    /\ IsSome(st.last_keep_alive) => t - Unwrap(st.last_keep_alive) >= 240000
\* this host's marker lies in its sync folder and was written at time t
MarkerWrittenAt(d, st, t) ==
    /\ KeepAliveName(st.hostname) \in DOMAIN d[Unwrap(st.sync_folder)]
    /\ d[Unwrap(st.sync_folder)][KeepAliveName(st.hostname)].mtime = t
\* this host's marker lies in its sync folder and is younger at time t than
\* the staleness threshold (10 minutes)
MarkerFresh(d, st, t) ==
    /\ KeepAliveName(st.hostname) \in DOMAIN d[Unwrap(st.sync_folder)]
    /\ t - d[Unwrap(st.sync_folder)][KeepAliveName(st.hostname)].mtime < 600000
\* the calls a handler made after its last initialize or uninitialize
SinceLastLife(calls) ==
    SubSeq(calls,
           1 + Cardinality({i \in 1..Len(calls) :
                                \E j \in i..Len(calls) : IsLifeCall(calls[j])}),
           Len(calls))
\* the tick of report e wrote no marker and swept nothing outside initialize
NoMaintenance(e) ==
    /\ \A i \in 1..Len(SinceLastLife(e.calls)) :
            SinceLastLife(e.calls)[i] \notin {"keep_alive", "clean"}

\* C29: a tick that finds the orchestrator Running with a receive capability
\* enabled rewrites this host's presence marker when 4 minutes or more have
\* passed since the last write, so the marker of a Running receiver is
\* always younger than the 10-minute staleness threshold; a tick that
\* finds the orchestrator not Running writes no marker and sweeps nothing.
C29_KeepAlive ==
    [][ev'.op = "timer_tick"
        => /\ (state'.initialized
                /\ KeepAliveDue(AtMaintenance(Machine, now', ev'.idle, ev'.inp).state, now'))
                => MarkerWrittenAt(disk', state', now')
           /\ (state'.initialized /\ is_receiving_anything(state'.config))
                => MarkerFresh(disk', state', now')
           /\ ~state'.initialized => NoMaintenance(ev')]_vars


\* C30: a Sync Writer invocation that stops before the duplicate check has
\* passed (no peer listening, clipboard not available, kind disabled, empty
\* text or file set, file set over the size cap, duplicate) returns false,
\* creates nothing in the sync folder and leaves every dedup field, the
\* last beat included, as it was.
C30_AbortLeavesNoTrace ==
    [][(WriterInvoked(ev') /\ ~PassedDedup(ev', state, Reachable(Machine), clip, now'))
        => /\ ~ev'.ret
           /\ disk' = disk
           /\ DedupState(state') = DedupState(state)]_vars

\* C30 witness: after a write, the writer was invoked on a file set over
\* the size cap with a peer listening: it returned false and the last beat
\* is still the one of the write
C30_Witness ==
    /\ WriterInvoked(ev) /\ ev.clipRead /\ ev.io.ctx_ok /\ ~ev.ret
    /\ clip = ClipboardSetFiles(FilesBig)
    /\ state.config.send_files
    /\ IsSome(state.last_beat) /\ Unwrap(state.last_beat) < now
    /\ Cardinality(OwnArtifacts(disk)) = 1


\* the artifact the reader of report e was invoked on, as decoded
ParsedOf(e, st) ==
    Unwrap(parse_clipboard_filename(e.path, Unwrap(st.sync_folder), st.hostname, FsEventFilter))
\* the reader of report e got past the superseded check (clipboard.rs line
\* 582): the artifact was loaded, the clipboard opened, the content differs
\* from the clipboard's and the beat is not older than the last
ReachedSet(e, st, fs, ctx) ==
    /\ ReaderInvoked(e) /\ e.io.ctx_ok
    /\ IsSome(LoadArtifact(ParsedOf(e, st), st.config, fs))
    /\ ~ReaderSkips(ParsedOf(e, st), Unwrap(LoadArtifact(ParsedOf(e, st), st.config, fs)), ctx)
    /\ ~Superseded(ParsedOf(e, st), st.last_beat)
\* the last-read snapshots
LastRead(st) == <<st.last_text_read, st.last_image_sha256_read, st.last_file_paths_read>>

\* C31: a Sync Reader invocation that stops at or before the superseded
\* check changes neither the clipboard nor any dedup field; one whose
\* clipboard set fails after it returns false with the last beat advanced
\* and the last-read snapshots as they were; the last-read snapshots change
\* only when the reader returns true.
C31_ReaderAborts ==
    [][ReaderInvoked(ev')
        => /\ ~ReachedSet(ev', state, Reachable(Machine), clip)
                => (~ev'.ret /\ clip' = clip /\ DedupState(state') = DedupState(state))
           /\ (ReachedSet(ev', state, Reachable(Machine), clip) /\ ~ev'.ret)
                => /\ state'.last_beat = Some(now')
                   /\ LastRead(state') = LastRead(state)
                   /\ clip' = clip
           /\ LastRead(state') /= LastRead(state) => ev'.ret]_vars

\* C31 witness: the set of the clipboard failed for a peer's text: the
\* reader returned false, the last beat is the time of the read and no
\* snapshot was recorded
C31_Witness ==
    /\ ReaderInvoked(ev) /\ ~ev.ret /\ ev.io.ctx_ok /\ ~ev.io.write_ok
    /\ EndsWith(ev.path.name, <<"j", "s", "o", "n">>)
    /\ state.last_beat = Some(now)
    /\ LastRead(state) = <<None, None, None>>


\* the candidate c equals a snapshot of the dedup state st: the text or the
\* image last written or last read, the file set last read
EqualsSnapshot(c, st) ==
    CASE c.content_type = "Text" ->
            \/ IsSome(st.last_text_written)
                    /\ TextEquals(Unwrap(st.last_text_written), c.clipboard_text)
            \/ IsSome(st.last_text_read)
                    /\ TextEquals(Unwrap(st.last_text_read), c.clipboard_text)
      [] c.content_type = "Image" ->
            c.clipboard_image_sha256 \in
                ({st.last_image_sha256_written, st.last_image_sha256_read} \ {None})
      [] c.content_type = "Files" ->
            IsSome(st.last_file_paths_read)
                /\ SortedEqual(Unwrap(c.clipboard_file_paths), Unwrap(st.last_file_paths_read))
\* no beat is recorded, or 15 s or more have passed since the last one
OutsideWindow(st, beat) ==
    ~IsSome(st.last_beat) \/ beat - Unwrap(st.last_beat) >= 15000
\* the writer of report e built, with a peer listening, a candidate equal
\* to a snapshot that is not empty and not over the size cap, outside the
\* window, and its write did not fail
StaleDuplicate(e, st, fs, ctx, beat) ==
    /\ WriterInvoked(e) /\ e.clipRead /\ e.io.ctx_ok /\ e.io.write_ok
    /\ IsSome(CandidateOf(ctx, st.config))
    /\ EqualsSnapshot(Unwrap(CandidateOf(ctx, st.config)), st)
    /\ ~WriterSkips(Unwrap(CandidateOf(ctx, st.config)), FALSE, st, fs)
    /\ OutsideWindow(st, beat)

\* C32: when no beat is recorded or 15 s or more have passed since the last
\* recorded beat, a non-empty candidate equal to the last-written or the
\* last-read snapshot is not taken for a duplicate: the writer returns true
\* and a new artifact is created.
C32_WindowLimitsDedup ==
    [][StaleDuplicate(ev', state, Reachable(Machine), clip, now')
        => (ev'.ret /\ Created(disk, disk') /= {})]_vars

\* C32 witness: the text written 15 s before was written again
C32_Witness ==
    /\ WriterInvoked(ev) /\ ev.ret
    /\ clip = ClipboardSetText(TextB)
    /\ state.last_text_written = Some(ClipboardGetText(clip))
    /\ Cardinality(OwnArtifacts(disk)) = 2
    /\ now = T0 + CLIPBOARD_WRITE_DELAY_MS + DUPLICATE_WINDOW_MS


\* the handler of report e, run on machine m at time t, executed initialize
\* on an orchestrator that was Running: at start, or in the idle check of
\* a tick (the folder check and the Reload handler look at initialized or
\* uninitialize first)
InitializeOnRunning(e, m, t) ==
    \/ e.op = "start" /\ m.state.initialized
    \/ InitializedTwice(e, m, t)

\* C33: initialize is executed only while the orchestrator is not Running,
\* whatever the ticks, reloads, idle changes and folder changes; in
\* particular not when the folder check and the idle check's resume both
\* fire in one tick.
C33_InitializeOnlyWhenStopped ==
    [][~InitializeOnRunning(ev', Machine, now)]_vars


\* the orchestrator is suspended because of idleness: the idle check
\* uninitialized it, and nothing has happened to it since
SuspendedByIdle(st, o) ==
    ~st.initialized /\ st.suspended_by_idle /\ o.tooltip = "System is idle"

\* C34: while the orchestrator is suspended because of idleness, a tick that
\* still reads an idle time at or above the threshold does not invoke
\* initialize: it starts no watcher, writes no marker and spawns no command.
C34_IdleStaysSuspended ==
    [][(IdleTick(ev') /\ SuspendedByIdle(state, os))
        => /\ ~Did(ev', "initialize")
           /\ ~Did(ev', "keep_alive")
           /\ ~Did(ev', "spawn")]_vars


\* the reader of report e was invoked on the artifact applied last, which
\* is still as it was when it was applied
SameArtifactAgain(e, h, d) ==
    /\ ReaderInvoked(e)
    /\ IsSome(h.applied)
    /\ e.path = Unwrap(h.applied).path
    /\ e.path.name \in DOMAIN d["sync"]
    /\ d["sync"][e.path.name] = Unwrap(h.applied).entry

\* C35: an artifact that was applied is not applied again: a later
\* filesystem event for the same artifact does not set the clipboard,
\* whatever the clipboard holds and whatever the sender's beat is next to
\* the local clock.
C35_AppliedOnce ==
    [][SameArtifactAgain(ev', hist, disk) => (~ev'.clipSet /\ clip' = clip)]_vars


\* the beats of the artifacts this host wrote last, by kind
WrittenBeats(h) ==
    {Unwrap(h.wrote[k]).at : k \in {k2 \in DOMAIN h.wrote : IsSome(h.wrote[k2])}}

\* C36: the clock of the host never going back, the last beat, once set, is
\* never cleared and never decreases; and a write that succeeds creates an
\* artifact under a new name, whose beat is the new last beat and is greater
\* than the beat of every artifact this host wrote before.
C36_BeatsIncrease ==
    [][/\ IsSome(state.last_beat)
            => /\ IsSome(state'.last_beat)
               /\ Unwrap(state'.last_beat) >= Unwrap(state.last_beat)
       /\ (WriterInvoked(ev') /\ ev'.ret)
            => \E n \in Created(disk, disk') :
                /\ n \in OwnArtifacts(disk')
                /\ BeatOf(n) = Unwrap(state'.last_beat)
                /\ \A o \in OwnArtifacts(disk) : BeatOf(o) < BeatOf(n)
                /\ \A b \in WrittenBeats(hist) : b < BeatOf(n)]_vars

\* C36 witness: the writer has just written a second artifact while the
\* first is still in the sync folder
C36_Witness ==
    /\ WriterInvoked(ev) /\ ev.ret
    /\ Cardinality(OwnArtifacts(disk)) = 2
    /\ Cardinality(WrittenBeats(hist)) = 2


\* on a host named local the name n decodes to an artifact of the given
\* kind and origin
DecodesAs(n, kind, local, origin) ==
    LET parsed == parse_clipboard_filename(SyncPath("sync", n, <<>>), "sync", local, None)
    IN  /\ IsSome(parsed)
        /\ Unwrap(parsed).content_type = kind
        /\ Unwrap(parsed).origin = origin

\* C37: every name under which the Sync Writer creates an artifact decodes
\* to an artifact of the kind written, with origin Myself on the writing host
\* and origin Others on another host, whatever the hostname of the writing
\* host and whatever the file set (a file set of no files included).
C37_NamesDecode ==
    [][WriterInvoked(ev')
        => \A n \in Created(disk, disk') :
            /\ DecodesAs(n, KindOf(clip), state.hostname, "Myself")
            /\ DecodesAs(n, KindOf(clip), PeerHost, "Others")]_vars


\* the clipboard holds content that a writer invoked now would write (the
\* orchestrator runs, a peer listens, the kind is enabled, the content is
\* not empty, not over the size cap and not a duplicate) and that this host
\* did not write as the last artifact of its kind
Unsent ==
    /\ state.initialized
    /\ FreshPeerMarkers(disk, now) /= {}
    /\ IsSome(CandidateOf(clip, state.config))
    /\ ~WriterSkips(Unwrap(CandidateOf(clip, state.config)),
                    IsRecent(state.last_beat, now), state, Reachable(Machine))
    /\ ~(IsSome(hist.wrote[KindOf(clip)]) /\ Unwrap(hist.wrote[KindOf(clip)]).clip = clip)

\* C38: the last local copy converges: the clipboard does not stay forever
\* with content that is to be sent and was not written, also when the last
\* change came less than 500 ms after the one before.
C38_LastCopyConverges == []<>(~Unsent)


\* a sync command is configured, the orchestrator is not Running, its
\* folder is configured and not accessible, and no command runs
Abandoned ==
    /\ os.started /\ ~os.exited
    /\ state.config.sync_command /= ""
    /\ ~state.initialized
    /\ IsSome(state.sync_folder) /\ ~os.is_dir[Unwrap(state.sync_folder)]
    /\ os.child /= "running"
\* the last step was a tick that performed the folder check and made no
\* transition of the orchestrator
CheckedInVain ==
    /\ ev.op = "timer_tick"
    /\ state.last_folder_check = Some(now)
    /\ SelectSeq(ev.calls, IsLifeCall) = <<>>

\* C39: with a sync command configured, the orchestrator does not wait
\* forever for an inaccessible folder without the command running: under fair
\* ticks the command runs again at some time after a tick found the folder
\* still inaccessible.
C39_CommandRunsAgain == []<>(~(Abandoned /\ CheckedInVain))


\* the step handled a clipboard-change or an artifact-detected event
PipelineEvent(e) == e.op = "clipboard_changed" \/ e.op = "file_detected"

\* C40: while the orchestrator is not Running no pipeline runs: an event of
\* the clipboard watcher or of the filesystem watcher that is handled while
\* initialized is false invokes neither the writer nor the reader, writes
\* nothing to the sync folder, does not set the clipboard and changes
\* neither the dedup state nor the debounce timestamp.
C40_NoPipelineWhenStopped ==
    [][(PipelineEvent(ev') /\ ~state.initialized)
        => /\ ~ev'.invoked /\ ~ev'.clipSet
           /\ disk' = disk
           /\ clip' = clip
           /\ DedupState(state') = DedupState(state)
           /\ state'.last_clipboard_event = state.last_clipboard_event]_vars

\* C40 witness: the event of a peer's artifact, queued while Running, was
\* handled after the idle check suspended the orchestrator: the artifact is
\* in the folder, the clipboard still holds the user's copy, of which
\* nothing was written
C40_Witness ==
    /\ ev.op = "file_detected" /\ ~ev.invoked
    /\ ~state.initialized /\ state.suspended_by_idle
    /\ hist.life = <<"initialize", "System is idle">>
    /\ queue = <<>>
    /\ \E a \in StoppedArtifacts : a.name \in DOMAIN disk["sync"]
    /\ clip = ClipboardSetText(TextA)
    /\ OwnArtifacts(disk) = {}
    /\ ~IsSome(state.last_beat) /\ ~IsSome(state.last_clipboard_event)

====
